---- MODULE Spec2Model ----
(***************************************************************************)
(* pyfaros discovery: the Discover constructor (enumeration result, the    *)
(* first fetch wave, each hub's claim / re-fetch / chain reconciliation,   *)
(* the node-to-hub mapping and the derived collections), the iteration     *)
(* over the result and the POWER_DEPENDENCY ordering used by the updater.  *)
(***************************************************************************)
EXTENDS Integers, Sequences, FiniteSets, TLC

\* ------------------------------------------------------------------ bounds
NumIris == 2
NumHubs == 2
NumTasks == 3
NumRemotes == 3
NumCpes == 1
NumVgers == 1
NumNodes == 3
MaxPasses == 2
MaxFound == 2
MaxFetches == 2

\* ------------------------------------------------------- program constants
LAST_POSSIBLE_CHAIN == 7
REFERENCE_NODE_CHAIN == {6}

\* Python's None where the code compares or stores it beside integers.
None == 0 - 99
\* A key that a fetched JSON document does not contain.
Absent == 0 - 98

\* Irises are named by their serial; the enumeration lists them in this order.
Irises == 1..NumIris
Hubs == 1..NumHubs
Cpes == 1..NumCpes
Vgers == 1..NumVgers
\* The irises of an installation of one hub and one long daisy chain.
Nodes == 1..NumNodes

\* ------------------------------------------------------------ small helpers
Min(a, b) == IF a < b THEN a ELSE b

Range(s) == {s[k] : k \in 1..Len(s)}

\* Python's comparison of two-element lists.
LexLess(a, b) == a[1] < b[1] \/ (a[1] = b[1] /\ a[2] < b[2])

\* sorted(s, key=...): keys[k] is the key of s[k]; the sort is stable.
SortedByKeys(s, keys) ==
  LET before(j, i) == LexLess(keys[j], keys[i]) \/ (keys[j] = keys[i] /\ j < i)
      rank(i) == Cardinality({j \in 1..Len(s) : before(j, i)}) + 1
  IN [r \in 1..Len(s) |-> s[CHOOSE i \in 1..Len(s) : rank(i) = r]]

\* The contiguous runs of serials a..b, the member lists a head can carry.
Interval(a, b) == [k \in 1..(b - a + 1) |-> a + k - 1]

\* An exception on its way out of the constructor: its type, the statement
\* that raised it, and what its message names (the chain index, or the two
\* hubs of "Remapping iris from {} to {}").
Raise(type, at, a, b) == [type |-> type, at |-> at, a |-> a, b |-> b]
NoError == Raise("none", "", None, None)

\* ------------------------------------------------------------ fingerprints
\* An address is six octets, as "aa:bb:cc:dd:ee:ff".split(":") gives them:
\* each the text of two hexadecimal digits, a digit kept as its value.
\* The address of the port of hub h that its nodes see as their gateway.
PortMac(h) == <<<<0, 0>>, <<0, 0>>, <<0, 0>>, <<0, 0>>, <<0, 0>>, <<0, h>>>>

\* reversed(...) of a list
Reversed(s) == [k \in 1..Len(s) |-> s[Len(s) + 1 - k]]

\* "".join(...) of a list of texts
RECURSIVE Joined(_)
Joined(texts) == IF texts = <<>> THEN <<>> ELSE Head(texts) \o Joined(Tail(texts))

\* int(text, 16)
RECURSIVE HexInt(_)
HexInt(text) ==
  IF text = <<>> THEN 0
  ELSE HexInt(SubSeq(text, 1, Len(text) - 1)) * 16 + text[Len(text)]

\* A decode that joins the last three octets as they stand.
MacMatchForward(k) == HexInt(Joined(SubSeq(k, 4, Len(k))))

\* int("".join(reversed(k[3::])), 16): the last three octets, reversed.
MacMatch(k) == HexInt(Joined(Reversed(SubSeq(k, 4, Len(k)))))

\* Remote.mac_to_uaa_id: the three low bytes of mac, in reverse order.
mac_to_uaa_id(mac) ==
  LET byte(byte_idx) == (mac \div (256 ^ byte_idx)) % 256
  IN byte(0) * 65536 + byte(1) * 256 + byte(2)

Macs == {MacMatch(PortMac(h)) : h \in Hubs}

\* ---------------------------------------------------------- status documents
\* sfp.config.rrh of a status document.
NoRrh == [present |-> FALSE, serial |-> Absent, has_chain |-> FALSE, chain |-> <<>>]
HeadRrh(s, list) == [present |-> TRUE, serial |-> s, has_chain |-> TRUE, chain |-> list]
SerialOnlyRrh(s) == [present |-> TRUE, serial |-> s, has_chain |-> FALSE, chain |-> <<>>]

\* The request itself failed, or the response was no JSON.
FetchError ==
  [status |-> "error", gateway_addr |-> Absent, message_index |-> Absent,
   chain_index |-> Absent, rrh |-> NoRrh]

StatusDoc(mac, msg, ch, rrh) ==
  [status |-> "ok", gateway_addr |-> mac, message_index |-> msg,
   chain_index |-> ch, rrh |-> rrh]

\* The head configurations iris i can carry: none, a serial without a member
\* list, an empty member list, or a contiguous run of serials that names i.
RrhBlocks(i) ==
  {NoRrh, SerialOnlyRrh(i), HeadRrh(i, <<>>)}
    \cup {HeadRrh(i, Interval(a, b)) : a \in 1..i, b \in i..NumIris}

\* A node that is no head, or a document cut short before message_index or
\* before chain_index, behind any hub's port.
PlainDocs ==
  {StatusDoc(mac, 1, 0, NoRrh) : mac \in Macs}
    \cup {StatusDoc(mac, Absent, 0, NoRrh) : mac \in Macs}
    \cup {StatusDoc(mac, 1, Absent, NoRrh) : mac \in Macs}

\* Nodes behind hub 1's port.  Chain 0: every position and head configuration;
\* chain 1 and the reference chain: a plain node or a head naming itself, at
\* the first position, on the reference chain also at the position before it.
\* message_index is one-based.
ChainDocs(i) ==
  {StatusDoc(MacMatch(PortMac(1)), m, 0, r) : m \in 0..NumIris, r \in RrhBlocks(i)}
    \cup {StatusDoc(MacMatch(PortMac(1)), 1, 1, r) : r \in {NoRrh, HeadRrh(i, <<i>>)}}
    \cup {StatusDoc(MacMatch(PortMac(1)), m, c, r) :
            m \in 0..1, c \in REFERENCE_NODE_CHAIN, r \in {NoRrh, HeadRrh(i, <<i>>)}}

\* The documents iris i can answer a fetch with.  An installation of one hub
\* is explored with every chain layout, one of several hubs (or none) with
\* plain nodes behind every port.
IrisDocs(i, nhubs) ==
  {FetchError} \cup PlainDocs \cup (IF nhubs = 1 THEN ChainDocs(i) ELSE {})

\* The documents a re-fetch of a node can return: what it returned before;
\* a plain node may by then see the last hub's port as its gateway.
RefetchDocs(json) ==
  IF json \in PlainDocs
  THEN {json, [json EXCEPT !.gateway_addr = MacMatch(PortMac(NumHubs))]}
  ELSE {json}

\* The member lists a head of the long chain can carry: two of the nodes in
\* either order, or all of them in order.
TreeLists ==
  ({<<a, b>> : a \in Nodes, b \in Nodes} \ {<<a, a>> : a \in Nodes})
    \cup {Interval(1, NumNodes)}

\* The documents of node i of the long chain: behind hub 1's port, on chain
\* 0, at any position, a plain node or a head.
TreeDocs(i) ==
  {StatusDoc(MacMatch(PortMac(1)), m, 0, r) :
     m \in 1..NumNodes, r \in {NoRrh} \cup {HeadRrh(i, list) : list \in TreeLists}}

\* jtagblob.config.network of hub h: its own port, and possibly hub 1's too.
HubNetworks(h) ==
  {<<PortMac(h)>>} \cup (IF h = 1 THEN {} ELSE {<<PortMac(h), PortMac(1)>>})

\* -------------------------------------------------------------- IrisRemote
NewIris ==
  [json |-> FetchError, last_mac |-> None, rrh_index |-> None, chain_index |-> None,
   rrh_head |-> "None", hub |-> None, rrh_member |-> "None", chain |-> None,
   afetch |-> "pending"]

\* IrisRemote.afetch: the assignments run in order and the first missing key
\* ends them; what was assigned before stays.
IrisAfetch(self, doc) ==
  IF doc.status # "ok" THEN [self EXCEPT !.afetch = "None"]
  ELSE IF doc.gateway_addr = Absent
    THEN [self EXCEPT !.json = doc, !.afetch = "None"]
  ELSE IF doc.message_index = Absent
    THEN [self EXCEPT !.json = doc, !.last_mac = doc.gateway_addr, !.afetch = "None"]
  ELSE IF doc.chain_index = Absent
    THEN [self EXCEPT !.json = doc, !.last_mac = doc.gateway_addr,
                      !.rrh_index = doc.message_index - 1, !.afetch = "None"]
  ELSE [self EXCEPT !.json = doc, !.last_mac = doc.gateway_addr,
                    !.rrh_index = doc.message_index - 1,
                    !.chain_index = doc.chain_index,
                    !.rrh_head = IF doc.rrh.present /\ doc.rrh.serial # Absent
                                 THEN "True" ELSE "False",
                    !.afetch = "self"]

\* --------------------------------------------------------------- HubRemote
NewHub == [macmatches |-> <<>>, irises |-> <<>>, chains |-> <<>>, error |-> FALSE]

\* HubRemote.afetch: one fingerprint per interface of the network map.
HubAfetch(self, ok, network) ==
  IF ~ok THEN self
  ELSE [self EXCEPT !.macmatches = [k \in 1..Len(network) |-> MacMatch(network[k])]]

\* --------------------------------------------------------------------- RRH
\* RRH.get_heads
get_heads(ir, members) == SelectSeq(members, LAMBDA n : ir[n].rrh_head = "True")

\* RRH.get_head: the head if there is exactly one
get_head(ir, members) ==
  LET heads == get_heads(ir, members)
  IN IF Len(heads) = 1 THEN heads[1] ELSE None

\* RRH.get_config_from_head: sfp.config.rrh of the head's document, {} without head
get_config_from_head(ir, head) == IF head = None THEN NoRrh ELSE ir[head].json.rrh

\* dict.get("chain", []) on a head configuration
ConfigChain(config) == IF config.has_chain THEN config.chain ELSE <<>>

\* "not self.config": None and {} are both false
ConfigIsEmpty(config) ==
  ~config.present \/ (config.serial = Absent /\ ~config.has_chain)

\* sorted(members, key=lambda x: x.rrh_index)
SortByIndex(ir, members) ==
  SortedByKeys(members, [k \in 1..Len(members) |-> <<ir[members[k]].rrh_index, 0>>])

\* The reduce over self.nodes: the chain index all nodes agree on, else None.
AgreedChain(ir, nodes) ==
  IF \A k \in 1..Len(nodes) : ir[nodes[k]].chain_index = ir[nodes[1]].chain_index
  THEN ir[nodes[1]].chain_index ELSE None

\* A config_correct that wants the two sequences equal, lengths included.
ConfigCorrectStrict(nodes, chain) == nodes = chain

\* reduce(and, map(==, zip(serials of the nodes, config["chain"])), True):
\* zip stops at the shorter of the two.
ConfigCorrect(nodes, chain) ==
  \A k \in 1..Min(Len(nodes), Len(chain)) : nodes[k] = chain[k]

NoGroup ==
  [kind |-> "none", nodes |-> <<>>, keys |-> <<>>, error |-> FALSE, head |-> None,
   serial |-> None, config_correct |-> FALSE, chain |-> None]

\* RRH.__init__(members, hub): the exception it raises ("none" when it returns),
\* the object and the irises with their back-references set.
NewRRH(ir, members) ==
  LET head == get_head(ir, members)
      config == get_config_from_head(ir, head)
      nodes == SortByIndex(ir, members)
      chain == AgreedChain(ir, nodes)
  IN IF ConfigIsEmpty(config)
       THEN [exc |-> "NotAnRRH", rrh |-> NoGroup, ir |-> ir]
     ELSE IF chain = None
       THEN [exc |-> "AssertionError", rrh |-> NoGroup, ir |-> ir]
     ELSE IF ~config.has_chain
       THEN [exc |-> "KeyError", rrh |-> NoGroup, ir |-> ir]
     ELSE [exc |-> "none",
           rrh |-> [kind |-> "RRH", nodes |-> nodes, keys |-> <<>>,
                    error |-> (head = None), head |-> head, serial |-> config.serial,
                    config_correct |-> ConfigCorrect(nodes, config.chain),
                    chain |-> chain],
           ir |-> [n \in DOMAIN ir |->
                     IF n \in Range(nodes)
                     THEN [ir[n] EXCEPT !.rrh_member = "True", !.chain = chain]
                     ELSE ir[n]]]

\* ------------------------------------------------------------------- Chain
\* chain[iris.rrh_index] = iris, for each node in turn: an OrderedDict keeps a
\* key where it was first inserted and the value last assigned to it.
RECURSIVE NewChain(_, _, _)
NewChain(ir, nodes, chain) ==
  IF nodes = <<>> THEN chain
  ELSE LET n == Head(nodes)
           key == ir[n].rrh_index
       IN IF \E k \in 1..Len(chain.keys) : chain.keys[k] = key
          THEN NewChain(ir, Tail(nodes),
                 [chain EXCEPT !.nodes = [k \in 1..Len(chain.keys) |->
                    IF chain.keys[k] = key THEN n ELSE chain.nodes[k]]])
          ELSE NewChain(ir, Tail(nodes),
                 [chain EXCEPT !.keys = Append(chain.keys, key),
                               !.nodes = Append(chain.nodes, n)])

EmptyChain == [NoGroup EXCEPT !.kind = "Chain"]

\* "iris.chain = nodes" of create_chain: the nodes of the group refer to one
\* list, an object that is none of the lists any iris refers to so far.  A
\* list is told from the chain numbers by a name from 1000 on, the least
\* that no iris holds.
InChain(ir, nodes) ==
  LET held == {ir[n].chain : n \in DOMAIN ir}
      list == CHOOSE id \in 1000..(1000 + Cardinality(DOMAIN ir)) :
                id \notin held /\ \A j \in 1000..(id - 1) : j \in held
  IN [n \in DOMAIN ir |-> IF n \in Range(nodes) THEN [ir[n] EXCEPT !.chain = list]
                          ELSE ir[n]]

\* ------------------------------------------------- HubRemote reconciliation
\* A create_chain that assigns self.chains[chain_idx] whatever the slot holds.
PutChainOverwrite(chains, chain_idx, chain) ==
  IF \E k \in 1..Len(chains) : chains[k].slot = chain_idx
  THEN [k \in 1..Len(chains) |->
          IF chains[k].slot = chain_idx
          THEN [chains[k] EXCEPT !.groups = <<chain>>]
          ELSE chains[k]]
  ELSE Append(chains, [slot |-> chain_idx, groups |-> <<chain>>])

\* self.chains[chain_idx] = chain, or appended to what the slot already holds
PutChain(chains, chain_idx, chain) ==
  IF \E k \in 1..Len(chains) : chains[k].slot = chain_idx
  THEN [k \in 1..Len(chains) |->
          IF chains[k].slot = chain_idx
          THEN [chains[k] EXCEPT !.groups = Append(chains[k].groups, chain)]
          ELSE chains[k]]
  ELSE Append(chains, [slot |-> chain_idx, groups |-> <<chain>>])

\* A create_chain whose "except NotAnRRH" leaves the error flag as passed.
create_chain_unflagged(R, chain_idx, nodes, error) ==
  IF nodes = <<>> THEN R
  ELSE
    LET made == IF chain_idx \in REFERENCE_NODE_CHAIN
                THEN [exc |-> "reference", rrh |-> NoGroup, ir |-> R.ir]
                ELSE NewRRH(R.ir, nodes)
    IN IF made.exc \in {"KeyError", "AssertionError"}
       THEN [R EXCEPT !.exc = Raise(made.exc, "create_chain", chain_idx, None)]
       ELSE
         LET chain == IF made.exc = "none"
                      THEN [made.rrh EXCEPT !.error = error]
                      ELSE [NewChain(R.ir, nodes, EmptyChain) EXCEPT !.error = error]
         IN [R EXCEPT !.chains = PutChain(R.chains, chain_idx, chain),
                      !.error = R.error \/ chain.error,
                      !.ir = IF made.exc = "none" THEN made.ir
                             ELSE InChain(made.ir, nodes)]

\* HubRemote.create_chain.  R is the reconciliation so far: the hub's chains
\* and error flag, the irises, the unpaired bucket and the exception raised.
create_chain(R, chain_idx, nodes, error) ==
  IF nodes = <<>> THEN R
  ELSE
    LET made == IF chain_idx \in REFERENCE_NODE_CHAIN
                THEN [exc |-> "reference", rrh |-> NoGroup, ir |-> R.ir]
                ELSE NewRRH(R.ir, nodes)
    IN IF made.exc \in {"KeyError", "AssertionError"}
       THEN [R EXCEPT !.exc = Raise(made.exc, "create_chain", chain_idx, None)]
       ELSE
         LET chain == IF made.exc = "none"
                      THEN [made.rrh EXCEPT !.error = error]
                      ELSE [NewChain(R.ir, nodes, EmptyChain) EXCEPT
                              !.error = (error \/ made.exc = "NotAnRRH")]
         IN [R EXCEPT !.chains = PutChain(R.chains, chain_idx, chain),
                      !.error = R.error \/ chain.error,
                      !.ir = IF made.exc = "none" THEN made.ir
                             ELSE InChain(made.ir, nodes)]

\* The "for serial in ...chain" loop of filter_chain_for_bad_indexes for one
\* head: F is this_chain, the nodes taken for the head and the error flag.
RECURSIVE TakeSerials(_, _, _)
TakeSerials(ir, serials, F) ==
  IF serials = <<>> THEN F
  ELSE TakeSerials(ir, Tail(serials),
         [this_chain |-> SelectSeq(F.this_chain, LAMBDA n : n # Head(serials)),
          nodes |-> F.nodes \o SelectSeq(F.this_chain, LAMBDA n : n = Head(serials)),
          error |-> F.error \/ \E k \in 1..Len(F.this_chain) :
                                  ir[F.this_chain[k]].rrh_index < 0])

\* The "for head in heads" loop: G is this_chain, rrhs and the error flag.
RECURSIVE TakeHeads(_, _, _)
TakeHeads(ir, heads, G) ==
  IF heads = <<>> THEN G
  ELSE LET F == TakeSerials(ir, ConfigChain(get_config_from_head(ir, Head(heads))),
                            [this_chain |-> G.this_chain, nodes |-> <<>>,
                             error |-> G.error])
       IN TakeHeads(ir, Tail(heads),
            [this_chain |-> F.this_chain, rrhs |-> Append(G.rrhs, F.nodes),
             error |-> F.error])

\* A filter_chain_for_bad_indexes that regroups but never reports the error.
filter_chain_unflagged(ir, chain_index, this_chain) ==
  IF chain_index \in REFERENCE_NODE_CHAIN
  THEN [rrhs |-> <<this_chain>>, error |-> FALSE]
  ELSE LET G == TakeHeads(ir, get_heads(ir, this_chain),
                          [this_chain |-> this_chain, rrhs |-> <<>>, error |-> FALSE])
       IN [rrhs |-> IF G.this_chain # <<>> THEN Append(G.rrhs, G.this_chain)
                    ELSE G.rrhs,
           error |-> FALSE]

\* HubRemote.filter_chain_for_bad_indexes
filter_chain_for_bad_indexes(ir, chain_index, this_chain) ==
  IF chain_index \in REFERENCE_NODE_CHAIN
  THEN [rrhs |-> <<this_chain>>, error |-> FALSE]
  ELSE LET G == TakeHeads(ir, get_heads(ir, this_chain),
                          [this_chain |-> this_chain, rrhs |-> <<>>, error |-> FALSE])
       IN [rrhs |-> IF G.this_chain # <<>> THEN Append(G.rrhs, G.this_chain)
                    ELSE G.rrhs,
           error |-> G.error]

\* "for rrh in rrhs: self.create_chain(chain, rrh, error)"; an exception ends it
RECURSIVE CreateChains(_, _, _, _)
CreateChains(R, chain_idx, rrhs, error) ==
  IF rrhs = <<>> \/ R.exc.type # "none" THEN R
  ELSE CreateChains(create_chain(R, chain_idx, Head(rrhs), error),
                    chain_idx, Tail(rrhs), error)

\* Python refuses to order None against anything: sorting raises TypeError
\* as soon as a None key meets another key.
SortRaises(keys) == Cardinality(DOMAIN keys) > 1 /\ \E k \in DOMAIN keys : keys[k] = None

\* A selection that takes every iris of the hub, whatever chain it reports.
OnAnyChain(ir, irises, chain) == irises

\* filter(lambda x: x.chain_index == chain, self._irises)
OnChain(ir, irises, chain) ==
  SelectSeq(irises, LAMBDA n : ir[n].chain_index = chain)

\* The body of the "for chain in sorted(...)" loop of _map_irises
MapOneChain(R, irises, chain) ==
  LET members == OnChain(R.ir, irises, chain)
  IN IF SortRaises([k \in 1..Len(members) |-> R.ir[members[k]].rrh_index])
     THEN [R EXCEPT !.exc = Raise("TypeError", "sorted this_chain", chain, None)]
     ELSE LET this_chain == SortByIndex(R.ir, members)
              f == filter_chain_for_bad_indexes(R.ir, chain, this_chain)
          IN CreateChains([R EXCEPT !.error = R.error \/ f.error],
                          chain, f.rrhs, f.error)

RECURSIVE MapChains(_, _, _)
MapChains(R, irises, chainids) ==
  IF chainids = <<>> \/ R.exc.type # "none" THEN R
  ELSE MapChains(MapOneChain(R, irises, Head(chainids)), irises, Tail(chainids))

\* The loop over self._unpaired_nodes: one error group per head, from slot
\* LAST_POSSIBLE_CHAIN on.
RECURSIVE MapUnpaired(_, _, _)
MapUnpaired(R, unpaired, chain_idx) ==
  IF unpaired = <<>> \/ R.exc.type # "none" THEN R
  ELSE MapUnpaired(create_chain([R EXCEPT !.error = TRUE], chain_idx,
                                Head(unpaired).nodes, TRUE),
                   Tail(unpaired), chain_idx + 1)

\* sorted(list({x.chain_index for x in self._irises}))
SortedChainIds(ir, irises) ==
  LET ids == {ir[irises[k]].chain_index : k \in 1..Len(irises)}
      asseq == CHOOSE q \in [1..Cardinality(ids) -> ids] : Range(q) = ids
  IN SortedByKeys(asseq, [k \in 1..Len(asseq) |-> <<asseq[k], 0>>])

\* HubRemote._map_irises after the re-fetch: lines 621 to 641.  Nothing in the
\* class fills _unpaired_nodes (remove_nodes_from_chain has no caller).
map_irises(self, ir) ==
  LET R0 == [chains |-> self.chains, error |-> self.error, ir |-> ir,
             unpaired |-> <<>>, exc |-> NoError]
      ids == {ir[self.irises[k]].chain_index : k \in 1..Len(self.irises)}
  IN IF Cardinality(ids) > 1 /\ None \in ids
     THEN [R0 EXCEPT !.exc = Raise("TypeError", "sorted chain_index", None, None)]
     ELSE LET R1 == MapChains(R0, self.irises, SortedChainIds(ir, self.irises))
          IN MapUnpaired(R1, R1.unpaired, LAST_POSSIBLE_CHAIN)

\* IrisRemote._map_to_hub, the loop over the hubs: M is self.hub so far and
\* the AssertionError raised, which names the two hubs.
RECURSIVE MapToHubLoop(_, _, _, _)
MapToHubLoop(last_mac, hub_objs, hubseq, M) ==
  IF hubseq = <<>> \/ M.exc.type # "none" THEN M
  ELSE LET h == Head(hubseq)
       IN IF last_mac \in Range(hub_objs[h].macmatches)
          THEN IF M.hub # None
               THEN [M EXCEPT !.exc = Raise("AssertionError", "_map_to_hub", M.hub, h)]
               ELSE MapToHubLoop(last_mac, hub_objs, Tail(hubseq), [M EXCEPT !.hub = h])
          ELSE MapToHubLoop(last_mac, hub_objs, Tail(hubseq), M)

\* A _map_to_hub without its assertion: the last hub that matches wins.
map_to_hub_remap(self, hub_objs, hubseq) ==
  LET m == SelectSeq(hubseq, LAMBDA h : self.last_mac \in Range(hub_objs[h].macmatches))
  IN [hub |-> IF m = <<>> THEN self.hub ELSE m[Len(m)], exc |-> NoError]

\* IrisRemote._map_to_hub
map_to_hub(self, hub_objs, hubseq) ==
  MapToHubLoop(self.last_mac, hub_objs, hubseq,
               [hub |-> self.hub, exc |-> NoError])

\* ------------------------------------------------------ Discover.Filters
\* An IRIS_STANDALONE that takes "rrh_member is False" for "not rrh_member"
\* and so tests the value before _map_to_hub set it.
IRIS_STANDALONE_unset(item) == item.rrh_member = "None" /\ item.hub = None

IRIS_STANDALONE(item) == item.rrh_member = "False" /\ item.hub = None
IRIS_RRHMEMBER(item) == item.rrh_member = "True" /\ item.hub # None
IRIS_PARTIALCHAIN(item) == item.rrh_member = "False" /\ item.hub # None

\* ------------------------------------------------------ Remote.ssh_connect
\* What Remote.__init__ leaves of the ssh state of a device: the asyncio.Lock
\* (held or not, and the tasks waiting for it in order of arrival), the
\* connection (None, or the task that opened it) and the bound ssh_session.
NewRemote ==
  [locked |-> FALSE, waiters |-> <<>>, ssh_connection |-> None,
   ssh_session |-> "_ssh_session_no_connection"]

\* "async with self._ssh_lock" on entry: a free lock nobody waits for is
\* taken at once, otherwise the task queues behind the others.
LockAcquire(self, t) ==
  IF ~self.locked /\ self.waiters = <<>>
  THEN [self EXCEPT !.locked = TRUE]
  ELSE [self EXCEPT !.waiters = Append(@, t)]

\* The first waiter resumes once the lock was released, and takes it.
LockWake(self) == [self EXCEPT !.locked = TRUE, !.waiters = Tail(@)]

\* "async with self._ssh_lock" on exit
LockRelease(self) == [self EXCEPT !.locked = FALSE]

\* asyncssh.connect returned: the connection and the session factory are set.
SshConnected(self, t) ==
  [self EXCEPT !.ssh_connection = t, !.ssh_session = "_ssh_session_has_connection"]

\* A finally clause that rebinds ssh_session but keeps the connection.
SshFinallyKeeps(self) ==
  [self EXCEPT !.ssh_session = "_ssh_session_no_connection"]

\* The finally clause of ssh_connect
SshFinally(self) ==
  [self EXCEPT !.ssh_connection = None, !.ssh_session = "_ssh_session_no_connection"]

\* ---------------------------------------------------------------- filters
\* An object a filter is given: an iris or a hub by its serial, a validated
\* chain by its hub and its place in the hub's slot mapping.
Thing(kind, a, b, c) == [kind |-> kind, id |-> <<a, b, c>>]

\* Discover.Filters.SAME_CHAIN; "is" on the chain numbers of the model, small
\* integers, and on None is equality.
SAME_CHAIN(ir, item1, item2) ==
  IF item1.kind # "iris" \/ item2.kind # "iris" THEN FALSE
  ELSE ir[item1.id[1]].chain = ir[item2.id[1]].chain

\* hub_test(z)(x, y) of RELATED_TO: y.hub is x, for a hub x and a y of class z
hub_test(ir, z, x, y) ==
  IF x.kind = "hub" /\ y.kind = z
  THEN (IF z = "iris" THEN ir[y.id[1]].hub ELSE y.id[1]) = x.id[1]
  ELSE FALSE

\* Discover.Filters.RELATED_TO(item1)(item2)
RELATED_TO(ir, item1, item2) ==
  IF item2 = item1 THEN TRUE
  ELSE IF SAME_CHAIN(ir, item1, item2) THEN TRUE
  ELSE IF hub_test(ir, "iris", item1, item2) \/ hub_test(ir, "iris", item2, item1) THEN TRUE
  ELSE IF hub_test(ir, "rrh", item1, item2) \/ hub_test(ir, "rrh", item2, item1) THEN TRUE
  ELSE FALSE

\* ---------------------------------------------- enumeration, classification
\* A text, as the sequence of its characters; "pattern in text" of Python.
Contains(text, pattern) ==
  \E k \in 1..(Len(text) - Len(pattern) + 1) :
    SubSeq(text, k, k + Len(pattern) - 1) = pattern

\* The serial texts and type markers of the descriptors an enumeration
\* returns; NoKey stands for a descriptor without that key.
NoKey == <<"(no key)">>
SerialTexts ==
  {<<"R", "F">>, <<"C", "P">>, <<"V", "G">>, <<"C", "P", "V", "G">>}
TypeMarkers ==
  {<<"i", "r", "i", "s">>, <<"c", "p", "e">>, <<"f", "a", "r", "o", "s">>}

Descriptors ==
  [serial : SerialTexts \cup {NoKey}, type : TypeMarkers \cup {NoKey}]

\* What one pass can return: up to MaxFound descriptors.
FoundLists == UNION {[1..n -> Descriptors] : n \in 0..MaxFound}

\* A loop that assigns soapy_enumerations[found["serial"]] whenever the
\* descriptor has a serial: the last one seen stays.
RECURSIVE EnumeratedLastWins(_, _)
EnumeratedLastWins(soapy_enumerations, found) ==
  IF found = <<>> THEN soapy_enumerations
  ELSE EnumeratedLastWins(
         IF Head(found).serial = NoKey THEN soapy_enumerations
         ELSE IF \A k \in 1..Len(soapy_enumerations) :
                   soapy_enumerations[k].serial # Head(found).serial
         THEN Append(soapy_enumerations, Head(found))
         ELSE [k \in 1..Len(soapy_enumerations) |->
                 IF soapy_enumerations[k].serial = Head(found).serial
                 THEN Head(found) ELSE soapy_enumerations[k]],
         Tail(found))

\* The "for found in ..." loop of one pass over soapy_enumerations, an ordered
\* mapping from serial to descriptor, kept as the sequence of its values.
RECURSIVE Enumerated(_, _)
Enumerated(soapy_enumerations, found) ==
  IF found = <<>> THEN soapy_enumerations
  ELSE Enumerated(
         IF /\ Head(found).serial # NoKey
            /\ \A k \in 1..Len(soapy_enumerations) :
                 soapy_enumerations[k].serial # Head(found).serial
         THEN Append(soapy_enumerations, Head(found))
         ELSE soapy_enumerations,
         Tail(found))

\* The four filters over self._soapy_enumerate
IsIris(x) ==
  /\ x.type # NoKey
  /\ Contains(x.type, <<"i", "r", "i", "s">>)
  /\ x.serial # NoKey
  /\ ~Contains(x.serial, <<"C", "P">>)

IsCpe(x) ==
  /\ x.type # NoKey
  /\ Contains(x.type, <<"c", "p", "e">>)
  /\ x.serial # NoKey
  /\ Contains(x.serial, <<"C", "P">>)

IsVger(x) ==
  /\ x.type # NoKey
  /\ Contains(x.type, <<"c", "p", "e">>)
  /\ x.serial # NoKey
  /\ Contains(x.serial, <<"V", "G">>)

IsHub(x) ==
  /\ x.type # NoKey
  /\ Contains(x.type, <<"f", "a", "r", "o", "s">>)

\* -------------------------------------------------------------- iteration
\* What an iteration yields: a hub, an RRH or an iris, named by its serial.
Item(kind, serial) == [kind |-> kind, serial |-> serial]

IrisItems(nodes) == [k \in 1..Len(nodes) |-> Item("iris", nodes[k])]

\* RRH.__iter__: the nodes, sorted by rrh_index
RRHIter(ir, rrh) == IrisItems(SortByIndex(ir, rrh.nodes))

\* The "for chain in rrhs" loop of HubRemote.__iter__: an RRH and then its
\* nodes, or the values of a Chain.
RECURSIVE GroupsIter(_, _)
GroupsIter(ir, groups) ==
  IF groups = <<>> THEN <<>>
  ELSE LET chain == Head(groups)
       IN (IF chain.kind = "RRH"
           THEN <<Item("rrh", chain.serial)>> \o RRHIter(ir, chain)
           ELSE IrisItems(chain.nodes))
          \o GroupsIter(ir, Tail(groups))

\* The "for rrhs in self.chains.values()" loop of HubRemote.__iter__
RECURSIVE SlotsIter(_, _)
SlotsIter(ir, chains) ==
  IF chains = <<>> THEN <<>>
  ELSE GroupsIter(ir, Head(chains).groups) \o SlotsIter(ir, Tail(chains))

\* HubRemote.__iter__
HubIter(ir, hub_objs, h) == <<Item("hub", h)>> \o SlotsIter(ir, hub_objs[h].chains)

\* The "for hub in self._hubs" loop of Discover.__iter__
RECURSIVE HubsIter(_, _, _)
HubsIter(ir, hub_objs, hubseq) ==
  IF hubseq = <<>> THEN <<>>
  ELSE HubIter(ir, hub_objs, Head(hubseq)) \o HubsIter(ir, hub_objs, Tail(hubseq))

\* Discover.__iter__: the hubs with what they hold, then the standalone
\* irises, the CPEs and the Vgers.
DiscoverIter(ir, hub_objs, hubseq, standalone, cpes, vgers) ==
  HubsIter(ir, hub_objs, hubseq) \o IrisItems(standalone)
  \o [k \in 1..Len(cpes) |-> Item("cpe", cpes[k])]
  \o [k \in 1..Len(vgers) |-> Item("vger", vgers[k])]

\* -------------------------------------------------------------------- walk
\* What walk() yields: an object, named by its kind and serial; an RRH also
\* by its chain, which is what its reboot command is built from.
Walked(kind, serial, chain) == [kind |-> kind, serial |-> serial, chain |-> chain]

WalkedIrises(nodes) == [k \in 1..Len(nodes) |-> Walked("iris", nodes[k], None)]

\* "depth = depth-1 if depth is not None else None"
Deeper(depth) == IF depth = None THEN None ELSE depth - 1

\* Remote.walk: the device itself
RemoteWalk(i, depth) == WalkedIrises(<<i>>)

\* RRH.walk: unless depth is 0 the nodes, then the RRH
RRHWalk(rrh, depth) ==
  (IF depth # 0 THEN WalkedIrises(rrh.nodes) ELSE <<>>)
  \o <<Walked("rrh", rrh.serial, rrh.chain)>>

\* Chain.walk: the values, whatever the depth; the Chain itself is not yielded
ChainWalk(chain, depth) == WalkedIrises(chain.nodes)

\* The "for chain in rrhs: yield from chain.walk(depth)" loop of HubRemote.walk
RECURSIVE GroupsWalk(_, _)
GroupsWalk(groups, depth) ==
  IF groups = <<>> THEN <<>>
  ELSE (IF Head(groups).kind = "RRH" THEN RRHWalk(Head(groups), depth)
        ELSE ChainWalk(Head(groups), depth))
       \o GroupsWalk(Tail(groups), depth)

\* The "for rrhs in self.chains.values()" loop of HubRemote.walk
RECURSIVE SlotsWalk(_, _)
SlotsWalk(chains, depth) ==
  IF chains = <<>> THEN <<>>
  ELSE GroupsWalk(Head(chains).groups, depth) \o SlotsWalk(Tail(chains), depth)

\* A HubRemote.walk that stops at the hub whenever a depth is given.
HubWalkShallow(hub_objs, h, depth) ==
  (IF depth = None THEN SlotsWalk(hub_objs[h].chains, Deeper(depth)) ELSE <<>>)
  \o <<Walked("hub", h, None)>>

\* HubRemote.walk: unless depth is 0 what its chains yield one level deeper,
\* then the hub
HubWalk(hub_objs, h, depth) ==
  (IF depth # 0 THEN SlotsWalk(hub_objs[h].chains, Deeper(depth)) ELSE <<>>)
  \o <<Walked("hub", h, None)>>

\* The devices HubRemote.async_do_reboot goes through before the hub itself:
\* with force the chain slots, as "chain_power reboot" commands, and the
\* reference chain; without it what walk yields, the hub left out.
RebootLoop(hub_objs, h, recursive, force) ==
  IF force
  THEN [k \in 1..LAST_POSSIBLE_CHAIN |->
          IF (k - 1) \in REFERENCE_NODE_CHAIN THEN Walked("reference", None, k - 1)
          ELSE Walked("chain_power", None, k - 1)]
  ELSE SelectSeq(HubWalk(hub_objs, h, IF recursive THEN 1 ELSE 0),
                 LAMBDA device : device # Walked("hub", h, None))

\* A POWER_DEPENDENCY that does not negate: shallow before deep.
POWER_DEPENDENCY_ascending(ir, item) ==
  IF item.kind = "iris"
  THEN LET index == IF ir[item.serial].rrh_index = None THEN 0
                    ELSE ir[item.serial].rrh_index
           chain == IF ir[item.serial].chain_index = None THEN 0
                    ELSE ir[item.serial].chain_index
       IN <<chain, index>>
  ELSE IF item.kind = "hub" THEN <<1, 0>>
  ELSE <<2, 0>>

\* Discover.Sortings.POWER_DEPENDENCY; "x or 0" turns None into 0.
POWER_DEPENDENCY(ir, item) ==
  IF item.kind = "iris"
  THEN LET index == IF ir[item.serial].rrh_index = None THEN 0
                    ELSE ir[item.serial].rrh_index
           chain == IF ir[item.serial].chain_index = None THEN 0
                    ELSE ir[item.serial].chain_index
       IN <<0 - chain, 0 - index>>
  ELSE IF item.kind = "hub" THEN <<1, 0>>
  ELSE <<2, 0>>

\* sorted(items, key=Discover.Sortings.POWER_DEPENDENCY)
SortedByPower(ir, items) ==
  SortedByKeys(items, [k \in 1..Len(items) |-> POWER_DEPENDENCY(ir, items[k])])

VARIABLES
  pc,        \* where the Discover constructor, and then the updater, is
  hubs,      \* Discover._hubs: the enumerated hubs, in order
  clients,   \* Discover._cpes and Discover._vgers, each in order
  iris,      \* the IrisRemote objects, by serial
  hub,       \* the HubRemote objects, by serial
  wave,      \* the fetches of the running gather that have not finished
  fetched,   \* the fetches of the first gather that have finished (self._all)
  cur,       \* the index of the running for loop
  err,       \* the exception that left the constructor
  top,       \* the collections the constructor derives at its end
  discovered, \* the updater's device list
  args,      \* the updater's command line, as its filters read it
  ssh,       \* the ssh state of one device
  task,      \* where each task that uses ssh_connect on that device is
  sshify,    \* a Remote.sshify over several devices: its exit stack and the devices
  reboot,    \* the running HubRemote.async_do_reboot
  enum,      \* the enumeration passes and the classification of what they found
  blob       \* a hub, the network map it answers with, and its fetches so far

vars == <<pc, hubs, clients, iris, hub, wave, fetched, cur, err, top, discovered, args, ssh, task, sshify, reboot, enum, blob>>

\* The variables of the Discover constructor and the updater, and the others.
dvars == <<pc, hubs, iris, hub, wave, fetched, cur, err, top, discovered>>
avars == <<clients, args, ssh, task, sshify, reboot, enum, blob>>
svars == <<ssh, task>>

Tasks == 1..NumTasks

\* The devices a Remote.sshify can be given.
Remotes == 1..NumRemotes

\* No sshify was entered: where it is, the devices it was given with the ssh
\* state of each, where the connection attempt of each is, the contexts the
\* exit stack holds in the order they were entered, the exception that left.
NoSshify ==
  [phase |-> "idle", remotes |-> {}, remote |-> [r \in Remotes |-> NewRemote],
   attempt |-> [r \in Remotes |-> "none"], stack |-> <<>>, raised |-> FALSE]

\* remote is the ssh state of the hub being rebooted (its lock and
\* connection), via how each child reboot invoked so far reaches its device,
\* raised the type of the exception that left async_do_reboot.
NoReboot ==
  [hub |-> None, recursive |-> FALSE, force |-> FALSE, todo |-> <<>>, issued |-> <<>>,
   failed |-> <<>>, remote |-> NewRemote, via |-> <<>>, raised |-> "none"]

NoBlob == [network |-> <<>>, hub |-> NewHub, before |-> <<>>, fetches |-> 0]

NoEnum ==
  [passes |-> 0, found |-> <<>>, soapy_enumerations |-> <<>>, classified |-> FALSE,
   irises |-> <<>>, cpes |-> <<>>, vgers |-> <<>>, hubs |-> <<>>]

\* The command line before the updater's filters have read it.
NoArgs == [patch_all |-> FALSE, standalone |-> FALSE, serial |-> {}]

NoTop == [rrhs |-> <<>>, standalone |-> <<>>, partial |-> <<>>, members |-> <<>>]

\* No CPE and no Vger was enumerated, or NumCpes and NumVgers of them.
NoClients == [cpes |-> <<>>, vgers |-> <<>>]
AllClients == [cpes |-> [c \in Cpes |-> c], vgers |-> [v \in Vgers |-> v]]

\* The constructor after enumeration and classification, the first wave of
\* fetches under way.
Start(enumerated) ==
  /\ pc = "fetch"
  /\ \E n \in 0..NumHubs : hubs = [k \in 1..n |-> k]
  /\ clients = enumerated
  /\ iris = [i \in Irises |-> NewIris]
  /\ hub = [h \in Hubs |-> NewHub]
  /\ wave = {<<"iris", i>> : i \in Irises} \cup {<<"hub", hubs[k]>> : k \in 1..Len(hubs)}
            \cup {<<"cpe", c>> : c \in Range(enumerated.cpes)}
            \cup {<<"vger", v>> : v \in Range(enumerated.vgers)}
  /\ fetched = {}
  /\ cur = 1
  /\ err = NoError
  /\ top = NoTop
  /\ discovered = <<>>
  /\ args = NoArgs
  /\ ssh = NewRemote
  /\ task = [t \in Tasks |-> "idle"]
  /\ sshify = NoSshify
  /\ reboot = NoReboot
  /\ enum = NoEnum
  /\ blob = NoBlob

\* An installation of irises and hubs.
Init == Start(NoClients)

\* A gather that returns as soon as one of its fetches has finished.
AfterFetchEarly(left) ==
  IF hubs = <<>> THEN "map_to_hub" ELSE "map_irises"

\* Where the constructor goes once run_until_complete(fetchall) returns.
AfterFetch(left) ==
  IF left # {} THEN "fetch" ELSE IF hubs = <<>> THEN "map_to_hub" ELSE "map_irises"

\* One fetch of the first wave finishes.
FetchIris(i) ==
  /\ pc = "fetch"
  /\ <<"iris", i>> \in wave
  /\ \E doc \in IrisDocs(i, Len(hubs)) : iris' = [iris EXCEPT ![i] = IrisAfetch(iris[i], doc)]
  /\ wave' = wave \ {<<"iris", i>>}
  /\ fetched' = fetched \cup {<<"iris", i>>}
  /\ pc' = AfterFetch(wave')
  /\ UNCHANGED <<hubs, hub, cur, err, top, discovered>>
  /\ UNCHANGED avars

FetchHub(h) ==
  /\ pc = "fetch"
  /\ <<"hub", h>> \in wave
  /\ \E ok \in BOOLEAN, network \in HubNetworks(h) :
       hub' = [hub EXCEPT ![h] = HubAfetch(hub[h], ok, network)]
  /\ wave' = wave \ {<<"hub", h>>}
  /\ fetched' = fetched \cup {<<"hub", h>>}
  /\ pc' = AfterFetch(wave')
  /\ UNCHANGED <<hubs, iris, cur, err, top, discovered>>
  /\ UNCHANGED avars

\* The fetch of a CPE or of a Vger finishes: afetch returns the device, or
\* None after an exception; nothing else reads what it fetched.
FetchCpe(c) ==
  /\ pc = "fetch"
  /\ <<"cpe", c>> \in wave
  /\ wave' = wave \ {<<"cpe", c>>}
  /\ fetched' = fetched \cup {<<"cpe", c>>}
  /\ pc' = AfterFetch(wave')
  /\ UNCHANGED <<hubs, iris, hub, cur, err, top, discovered>>
  /\ UNCHANGED avars

FetchVger(v) ==
  /\ pc = "fetch"
  /\ <<"vger", v>> \in wave
  /\ wave' = wave \ {<<"vger", v>>}
  /\ fetched' = fetched \cup {<<"vger", v>>}
  /\ pc' = AfterFetch(wave')
  /\ UNCHANGED <<hubs, iris, hub, cur, err, top, discovered>>
  /\ UNCHANGED avars

\* hub._map_irises(self._irises) up to the gather of _update_irises: the hub
\* claims the irises whose last_mac it matches and re-fetches them.
MapIrisesClaim ==
  /\ pc = "map_irises"
  /\ LET h == hubs[cur]
         claimed == SelectSeq([i \in DOMAIN iris |-> i],
                      LAMBDA i : iris[i].last_mac \in Range(hub[h].macmatches))
     IN /\ hub' = [hub EXCEPT ![h].irises = claimed]
        /\ wave' = {<<"iris", i>> : i \in Range(claimed)}
  /\ pc' = "update_irises"
  /\ UNCHANGED <<hubs, iris, cur, err, top, discovered>>
  /\ UNCHANGED <<fetched, clients, args, ssh, task, sshify, reboot, enum, blob>>

\* One fetch of the hub's re-fetch wave finishes.
Refetch(i) ==
  /\ pc = "update_irises"
  /\ <<"iris", i>> \in wave
  /\ \E doc \in RefetchDocs(iris[i].json) :
       iris' = [iris EXCEPT ![i] = IrisAfetch(iris[i], doc)]
  /\ wave' = wave \ {<<"iris", i>>}
  /\ UNCHANGED <<pc, hubs, hub, cur, err, top, discovered>>
  /\ UNCHANGED <<fetched, clients, args, ssh, task, sshify, reboot, enum, blob>>

\* The rest of hub._map_irises, once the gather has returned.
MapIrisesReconcile ==
  /\ pc = "update_irises"
  /\ wave = {}
  /\ LET h == hubs[cur]
         R == map_irises(hub[h], iris)
     IN IF R.exc.type # "none"
        THEN /\ pc' = "raised"
             /\ err' = R.exc
             /\ UNCHANGED <<hub, iris, cur>>
        ELSE /\ hub' = [hub EXCEPT ![h].chains = R.chains, ![h].error = R.error]
             /\ iris' = R.ir
             /\ pc' = IF cur = Len(hubs) THEN "map_to_hub" ELSE "map_irises"
             /\ cur' = IF cur = Len(hubs) THEN 1 ELSE cur + 1
             /\ err' = err
  /\ UNCHANGED <<hubs, wave, top, discovered>>
  /\ UNCHANGED <<fetched, clients, args, ssh, task, sshify, reboot, enum, blob>>

\* iris._map_to_hub(self._hubs) for the next iris of the loop.
MapToHub ==
  /\ pc = "map_to_hub"
  /\ LET M == map_to_hub(iris[cur], hub, hubs)
     IN IF M.exc.type # "none"
        THEN /\ pc' = "raised"
             /\ err' = M.exc
             /\ UNCHANGED <<iris, cur>>
        ELSE /\ iris' = [iris EXCEPT ![cur].hub = M.hub,
                                     ![cur].rrh_member =
                                        IF @ = "None" THEN "False" ELSE @]
             /\ pc' = IF cur = Len(iris) THEN "collect" ELSE "map_to_hub"
             /\ cur' = IF cur = Len(iris) THEN 1 ELSE cur + 1
             /\ err' = err
  /\ UNCHANGED <<hubs, hub, wave, top, discovered>>
  /\ UNCHANGED <<fetched, clients, args, ssh, task, sshify, reboot, enum, blob>>

\* [list(hub.chains.values()) for hub in self._hubs], concatenated: a slot
\* holding several groups contributes the list of them, as one value.
RECURSIVE ChainValues(_, _)
ChainValues(hub_objs, hubseq) ==
  IF hubseq = <<>> THEN <<>>
  ELSE [k \in 1..Len(hub_objs[Head(hubseq)].chains) |->
          [h |-> Head(hubseq), groups |-> hub_objs[Head(hubseq)].chains[k].groups]]
       \o ChainValues(hub_objs, Tail(hubseq))

\* filter(Discover.Filters.RRH, ...): a value that is a list is no RRH.
Rrhs(values) ==
  LET kept == SelectSeq(values,
                LAMBDA v : Len(v.groups) = 1 /\ v.groups[1].kind = "RRH")
  IN [k \in 1..Len(kept) |-> [h |-> kept[k].h, rrh |-> kept[k].groups[1]]]

\* The end of the constructor: the derived collections.
Collect ==
  /\ pc = "collect"
  /\ top' = [rrhs |-> Rrhs(ChainValues(hub, hubs)),
             standalone |-> SelectSeq([i \in DOMAIN iris |-> i],
                              LAMBDA i : IRIS_STANDALONE(iris[i])),
             partial |-> SelectSeq([i \in DOMAIN iris |-> i],
                              LAMBDA i : IRIS_PARTIALCHAIN(iris[i])),
             members |-> SelectSeq([i \in DOMAIN iris |-> i],
                              LAMBDA i : IRIS_RRHMEMBER(iris[i]))]
  /\ pc' = "done"
  /\ UNCHANGED <<hubs, iris, hub, wave, cur, err, discovered>>
  /\ UNCHANGED <<fetched, clients, args, ssh, task, sshify, reboot, enum, blob>>

Next ==
  \/ \E i \in Irises : FetchIris(i)
  \/ \E h \in Hubs : FetchHub(h)
  \/ MapIrisesClaim
  \/ \E i \in Irises : Refetch(i)
  \/ MapIrisesReconcile
  \/ MapToHub
  \/ Collect

Spec == Init /\ [][Next]_vars

\* ------------------------------------------- a fleet with CPEs and Vgers
FleetInit == Start(AllClients)

FleetNext ==
  \/ Next
  \/ \E c \in Cpes : FetchCpe(c)
  \/ \E v \in Vgers : FetchVger(v)

FleetSpec == FleetInit /\ [][FleetNext]_vars

\* ------------------------------------------------------------- the updater
\* discovered = sorted(filter(update_environment.availablefilter(), list(top)),
\* key=POWER_DEPENDENCY): the filter keeps the devices the update environment
\* has an image for, some set of them.
UpdaterDiscover ==
  /\ pc = "done"
  /\ LET items == DiscoverIter(iris, hub, hubs, top.standalone, clients.cpes, clients.vgers)
     IN \E available \in SUBSET Range(items) :
          discovered' = SortedByPower(iris, SelectSeq(items, LAMBDA x : x \in available))
  /\ pc' = "discovered"
  /\ UNCHANGED <<hubs, iris, hub, wave, cur, err, top>>
  /\ UNCHANGED <<fetched, clients, args, ssh, task, sshify, reboot, enum, blob>>

\* The filters of the updater: the serials of the command line (with
\* --recursive, extended by what walk() yields), or with --patch-all and
\* --standalone the irises of no RRH.
UpdaterFilter ==
  /\ pc = "discovered"
  /\ \E patch_all \in BOOLEAN, standalone \in BOOLEAN, serial \in SUBSET Range(discovered) :
       /\ args' = [patch_all |-> patch_all, standalone |-> standalone, serial |-> serial]
       /\ discovered' =
            IF ~patch_all THEN SelectSeq(discovered, LAMBDA x : x \in serial)
            ELSE IF standalone
              THEN SelectSeq(discovered,
                     LAMBDA x : x.kind = "iris" /\ iris[x.serial].rrh_member # "True")
            ELSE discovered
  /\ pc' = "filtered"
  /\ UNCHANGED <<hubs, iris, hub, wave, cur, err, top>>
  /\ UNCHANGED <<fetched, clients, ssh, task, sshify, reboot, enum, blob>>

UpdaterNext ==
  \/ Next
  \/ UpdaterDiscover
  \/ UpdaterFilter

UpdaterSpec == Init /\ [][UpdaterNext]_vars
\* ------------------------------------------- one hub with one long chain
\* The constructor over one hub and NumNodes irises, the fetches of the hub,
\* the CPE and the Vger done and those of the irises under way.
TreeInit ==
  /\ pc = "fetch"
  /\ hubs = <<1>>
  /\ clients = AllClients
  /\ iris = [i \in Nodes |-> NewIris]
  /\ hub = [h \in Hubs |-> IF h = 1 THEN HubAfetch(NewHub, TRUE, <<PortMac(1)>>) ELSE NewHub]
  /\ wave = {<<"iris", i>> : i \in Nodes}
  /\ fetched = {<<"hub", 1>>} \cup {<<"cpe", c>> : c \in Cpes} \cup {<<"vger", v>> : v \in Vgers}
  /\ cur = 1
  /\ err = NoError
  /\ top = NoTop
  /\ discovered = <<>>
  /\ args = NoArgs
  /\ ssh = NewRemote
  /\ task = [t \in Tasks |-> "idle"]
  /\ sshify = NoSshify
  /\ reboot = NoReboot
  /\ enum = NoEnum
  /\ blob = NoBlob

\* The fetch of a node of the long chain finishes; the nodes answer in the
\* order of their serials.
TreeFetch(i) ==
  /\ pc = "fetch"
  /\ <<"iris", i>> \in wave
  /\ \A j \in 1..(i - 1) : <<"iris", j>> \notin wave
  /\ \E doc \in TreeDocs(i) : iris' = [iris EXCEPT ![i] = IrisAfetch(iris[i], doc)]
  /\ wave' = wave \ {<<"iris", i>>}
  /\ fetched' = fetched \cup {<<"iris", i>>}
  /\ pc' = AfterFetch(wave')
  /\ UNCHANGED <<hubs, hub, cur, err, top, discovered>>
  /\ UNCHANGED avars

\* list(top): the Discover object is iterated.
TreeIterate ==
  /\ pc = "done"
  /\ discovered' = DiscoverIter(iris, hub, hubs, top.standalone, clients.cpes, clients.vgers)
  /\ pc' = "iterated"
  /\ UNCHANGED <<hubs, iris, hub, wave, fetched, cur, err, top, avars>>

TreeNext ==
  \/ \E i \in Nodes : TreeFetch(i)
  \/ MapIrisesClaim
  \/ \E i \in Nodes : Refetch(i)
  \/ MapIrisesReconcile
  \/ MapToHub
  \/ Collect
  \/ TreeIterate

TreeSpec == TreeInit /\ [][TreeNext]_vars

\* ------------------------------------------------- the enumeration passes
\* One turn of "for _ in range(0, soapy_enumerate_iterations)": the pass
\* returns a list of descriptors and the loop over it runs.
EnumeratePass ==
  /\ enum.passes < MaxPasses
  /\ ~enum.classified
  /\ \E found \in FoundLists :
       enum' = [enum EXCEPT !.passes = @ + 1,
                            !.found = found,
                            !.soapy_enumerations = Enumerated(@, found)]
  /\ UNCHANGED <<dvars, clients, args, sshify, ssh, task, reboot, blob>>

\* After the passes: self._soapy_enumerate and the four filtered lists.
Classify ==
  /\ enum.passes = MaxPasses
  /\ ~enum.classified
  /\ enum' = [enum EXCEPT !.classified = TRUE,
                          !.irises = SelectSeq(enum.soapy_enumerations, IsIris),
                          !.cpes = SelectSeq(enum.soapy_enumerations, IsCpe),
                          !.vgers = SelectSeq(enum.soapy_enumerations, IsVger),
                          !.hubs = SelectSeq(enum.soapy_enumerations, IsHub)]
  /\ UNCHANGED <<dvars, clients, args, sshify, ssh, task, reboot, blob>>

EnumNext ==
  \/ EnumeratePass
  \/ Classify

\* The constructor at its start: nothing is enumerated yet.
EnumInit == Init /\ hubs = <<>>

EnumSpec == EnumInit /\ [][EnumNext]_vars

\* -------------------------------------------- the fingerprints of one hub
\* The octets an address of the network map is made of, and the addresses.
Octets == {<<0, 0>>, <<0, 1>>, <<1, 0>>, <<15, 15>>}
Addresses == [1..6 -> Octets]

\* A hub before its first fetch; its status document names one interface,
\* or that one and a second.
BlobInit ==
  /\ pc = "fetch"
  /\ hubs = <<>>
  /\ clients = NoClients
  /\ iris = [i \in Irises |-> NewIris]
  /\ hub = [h \in Hubs |-> NewHub]
  /\ wave = {}
  /\ fetched = {}
  /\ cur = 1
  /\ err = NoError
  /\ top = NoTop
  /\ discovered = <<>>
  /\ args = NoArgs
  /\ ssh = NewRemote
  /\ task = [t \in Tasks |-> "idle"]
  /\ sshify = NoSshify
  /\ reboot = NoReboot
  /\ enum = NoEnum
  /\ \E a \in Addresses :
       blob \in {[NoBlob EXCEPT !.network = <<a>>],
                 [NoBlob EXCEPT !.network = <<a, PortMac(1)>>]}

\* hub.afetch(): the document is the same at every fetch.
BlobAfetch ==
  /\ blob.fetches < MaxFetches
  /\ blob' = [blob EXCEPT !.hub = HubAfetch(@, TRUE, blob.network),
                          !.before = blob.hub.macmatches,
                          !.fetches = @ + 1]
  /\ UNCHANGED <<dvars, clients, args, sshify, ssh, task, reboot, enum>>

BlobNext == BlobAfetch

BlobSpec == BlobInit /\ [][BlobNext]_vars

\* ------------------------------------------------ HubRemote.async_do_reboot
\* "device = self.chains[chain_idx]; await device.async_do_reboot(...)" of
\* the force path: a missing key, a Chain, whose async_do_reboot is a plain
\* function that calls its members' coroutine functions without awaiting
\* them and returns None, a list, which has no such method, or an RRH.
ReferenceReboot(hub_objs, h, chain_idx) ==
  LET held == {k \in 1..Len(hub_objs[h].chains) : hub_objs[h].chains[k].slot = chain_idx}
      groups == hub_objs[h].chains[CHOOSE k \in held : TRUE].groups
  IN IF held = {} THEN "KeyError"
     ELSE IF Len(groups) # 1 THEN "AttributeError"
     ELSE IF groups[1].kind = "RRH" THEN "hub_connection"
     ELSE "TypeError"

\* RRH.async_do_reboot: the command goes over the hub's connection when the
\* hub has one, otherwise through sshify([self.hub]).
RRHRebootVia(hubremote) ==
  IF hubremote.ssh_connection # None THEN "hub_connection" ELSE "sshify_hub"

\* How the reboot of one device of the loop reaches its device: a chain_power
\* command on the hub's connection, RRH.async_do_reboot, Remote.async_do_reboot
\* (sshify of the node itself), or the exception the reference slot raises.
RebootVia(hub_objs, h, device, hubremote) ==
  IF device.kind = "chain_power" THEN "hub_connection"
  ELSE IF device.kind = "rrh" THEN RRHRebootVia(hubremote)
  ELSE IF device.kind = "reference" THEN ReferenceReboot(hub_objs, h, device.chain)
  ELSE "sshify_self"

\* hub.async_do_reboot(recursive, force) on a hub of the Discover object:
\* sshify([self]) connects to the hub, or raises.
RebootStart ==
  /\ pc = "done"
  /\ \E k \in 1..Len(hubs), recursive \in BOOLEAN, force \in BOOLEAN, connected \in BOOLEAN :
       /\ reboot' = [NoReboot EXCEPT !.hub = hubs[k], !.recursive = recursive,
                                     !.force = force,
                                     !.todo = IF connected
                                              THEN RebootLoop(hub, hubs[k], recursive, force)
                                              ELSE <<>>,
                                     !.remote = IF connected
                                                THEN SshConnected(LockAcquire(@, hubs[k]), hubs[k])
                                                ELSE LockRelease(SshFinally(LockAcquire(@, hubs[k]))),
                                     !.raised = IF connected THEN "none" ELSE "OSError"]
       /\ pc' = IF connected THEN "reboot" ELSE "reboot_raised"
  /\ UNCHANGED <<hubs, iris, hub, wave, fetched, cur, err, top, discovered, svars, enum, blob, clients, args, sshify>>

\* One turn of the loop: "await device.async_do_reboot(recursive, force)" or
\* the chain_power command of a slot.  The reboot is issued and the device
\* answers, or the call raises (run(..., check=True) on a failing command,
\* a connection that is refused or lost) and the exception leaves the loop
\* and async_do_reboot: nothing catches it.  self.chains[chain_idx] of the
\* reference chain is a Chain, whose async_do_reboot is no coroutine and
\* returns None, or a missing key: the await of it raises in any case.  An
\* exception leaves "async with Remote.sshify([self, ])", which closes the
\* hub's connection and releases its lock.  A child that entered
\* sshify([self.hub]) would queue for the lock its caller holds.
RebootChild ==
  /\ pc = "reboot"
  /\ reboot.todo # <<>>
  /\ LET device == Head(reboot.todo)
         via == RebootVia(hub, reboot.hub, device, reboot.remote)
         invoked == [reboot EXCEPT !.todo = Tail(@), !.via = Append(@, via)]
         left == LockRelease(SshFinally(reboot.remote))
     IN \E ok \in BOOLEAN :
          IF via \in {"KeyError", "TypeError", "AttributeError"}
          THEN /\ reboot' = [invoked EXCEPT !.failed = Append(@, device),
                                            !.remote = left, !.raised = via]
               /\ pc' = "reboot_raised"
          ELSE IF via = "sshify_hub"
          THEN /\ reboot' = [invoked EXCEPT !.remote = LockAcquire(@, device.serial)]
               /\ pc' = "reboot_waits"
          ELSE IF ok
          THEN /\ reboot' = [invoked EXCEPT !.issued = Append(@, device)]
               /\ pc' = pc
          ELSE /\ reboot' = [invoked EXCEPT !.failed = Append(@, device),
                                            !.remote = left, !.raised = "OSError"]
               /\ pc' = "reboot_raised"
  /\ UNCHANGED <<hubs, iris, hub, wave, fetched, cur, err, top, discovered, svars, enum, blob, clients, args, sshify>>

\* After the loop: print("Rebooting ..."); await do_reboot(self), and the
\* "async with Remote.sshify([self, ])" is left.
RebootHub ==
  /\ pc = "reboot"
  /\ reboot.todo = <<>>
  /\ reboot' = [reboot EXCEPT !.issued = Append(@, Walked("hub", reboot.hub, None)),
                              !.remote = LockRelease(SshFinally(@))]
  /\ pc' = "rebooted"
  /\ UNCHANGED <<hubs, iris, hub, wave, fetched, cur, err, top, discovered, svars, enum, blob, clients, args, sshify>>

RebootNext ==
  \/ Next
  \/ RebootStart
  \/ RebootChild
  \/ RebootHub

RebootSpec == Init /\ [][RebootNext]_vars

\* ------------------------------------------- tasks that enter ssh_connect
\* A task enters "async with self.ssh_connect()" and reaches the lock.
SshEnter(t) ==
  /\ task[t] \in {"idle", "left", "raised"}
  /\ ssh' = LockAcquire(ssh, t)
  /\ task' = [task EXCEPT ![t] = IF ssh'.locked /\ t \notin Range(ssh'.waiters)
                                 THEN "connect" ELSE "wait"]
  /\ UNCHANGED <<dvars, clients, args, sshify, reboot, enum, blob>>

\* The released lock goes to the task that waited longest.
SshResume(t) ==
  /\ task[t] = "wait"
  /\ ~ssh.locked
  /\ Head(ssh.waiters) = t
  /\ ssh' = LockWake(ssh)
  /\ task' = [task EXCEPT ![t] = "connect"]
  /\ UNCHANGED <<dvars, clients, args, sshify, reboot, enum, blob>>

\* await asyncssh.connect(...) returns a connection, and the body of the
\* caller's "async with" starts, or it raises: then the finally clause runs,
\* the lock is released and the exception goes to the caller.
SshConnect(t) ==
  /\ task[t] = "connect"
  /\ \E ok \in BOOLEAN :
       IF ok
       THEN /\ ssh' = SshConnected(ssh, t)
            /\ task' = [task EXCEPT ![t] = "body"]
       ELSE /\ ssh' = LockRelease(SshFinally(ssh))
            /\ task' = [task EXCEPT ![t] = "raised"]
  /\ UNCHANGED <<dvars, clients, args, sshify, reboot, enum, blob>>

\* The body of the caller's "async with" ends, by running off its end or by
\* an exception: the generator resumes at its yield, the finally clause runs
\* and the lock is released.
SshLeave(t) ==
  /\ task[t] = "body"
  /\ \E exception \in BOOLEAN :
       task' = [task EXCEPT ![t] = IF exception THEN "raised" ELSE "left"]
  /\ ssh' = LockRelease(SshFinally(ssh))
  /\ UNCHANGED <<dvars, clients, args, sshify, reboot, enum, blob>>

SshNext ==
  \/ \E t \in Tasks : SshEnter(t)
  \/ \E t \in Tasks : SshResume(t)
  \/ \E t \in Tasks : SshConnect(t)
  \/ \E t \in Tasks : SshLeave(t)

\* The event loop runs a task that can run; a connection attempt ends and
\* the body of a holder ends.
SshSpec ==
  /\ Init
  /\ [][SshNext]_vars
  /\ \A t \in Tasks : WF_vars(SshResume(t)) /\ WF_vars(SshConnect(t)) /\ WF_vars(SshLeave(t))

\* ------------------------------------------------------------ Remote.sshify
\* The exit of the AsyncExitStack: the contexts it holds are left, the last
\* entered first, each running the finally clause of its ssh_connect and
\* releasing its lock.
RECURSIVE Unwound(_, _)
Unwound(remote, stack) ==
  IF stack = <<>> THEN remote
  ELSE LET r == stack[Len(stack)]
       IN Unwound([remote EXCEPT ![r] = LockRelease(SshFinally(remote[r]))],
                  SubSeq(stack, 1, Len(stack) - 1))

\* The attempts once the stack has been unwound.
Closed(attempt, stack) ==
  [r \in DOMAIN attempt |-> IF r \in Range(stack) THEN "closed" ELSE attempt[r]]

\* "async with Remote.sshify(remotes)" is entered with devices nobody else
\* uses: gather starts one enter_async_context(remote.ssh_connect()) for
\* each, which takes the lock of its device and awaits asyncssh.connect.
SshifyEnter ==
  /\ sshify.phase = "idle"
  /\ \E remotes \in (SUBSET Remotes) \ {{}} :
       sshify' = [NoSshify EXCEPT
                    !.phase = "gather",
                    !.remotes = remotes,
                    !.remote = [r \in Remotes |->
                                  IF r \in remotes THEN LockAcquire(NewRemote, r)
                                  ELSE NewRemote],
                    !.attempt = [r \in Remotes |->
                                   IF r \in remotes THEN "connect" ELSE "none"]]
  /\ UNCHANGED <<dvars, clients, args, svars, reboot, enum, blob>>

\* asyncssh.connect of one device ends.  With a connection the context is
\* entered and pushed on the exit stack, and when it was the last one gather
\* returns and the body of the caller starts.  With an exception the finally
\* clause of that ssh_connect runs and its lock is released; the first such
\* exception leaves gather, which does not cancel the other attempts, and
\* the exit stack is unwound over the contexts entered so far.  An attempt
\* that ends after that finds the stack as it was left.
SshifyConnect(r) ==
  /\ sshify.attempt[r] = "connect"
  /\ \E ok \in BOOLEAN :
       IF ok
       THEN sshify' = [sshify EXCEPT
                         !.remote[r] = SshConnected(@, r),
                         !.attempt[r] = "entered",
                         !.stack = Append(@, r),
                         !.phase = IF /\ sshify.phase = "gather"
                                      /\ \A q \in sshify.remotes \ {r} :
                                           sshify.attempt[q] = "entered"
                                   THEN "body" ELSE @]
       ELSE IF sshify.phase = "gather"
       THEN sshify' = [sshify EXCEPT
                         !.remote = Unwound([@ EXCEPT ![r] = LockRelease(SshFinally(@))],
                                            sshify.stack),
                         !.attempt = Closed([@ EXCEPT ![r] = "failed"], sshify.stack),
                         !.stack = <<>>,
                         !.phase = "exited",
                         !.raised = TRUE]
       ELSE sshify' = [sshify EXCEPT
                         !.remote[r] = LockRelease(SshFinally(@)),
                         !.attempt[r] = "failed"]
  /\ UNCHANGED <<dvars, clients, args, svars, reboot, enum, blob>>

\* The body of the caller ends, by running off its end or by an exception:
\* the exit stack is unwound.
SshifyLeave ==
  /\ sshify.phase = "body"
  /\ \E exception \in BOOLEAN :
       sshify' = [sshify EXCEPT
                    !.remote = Unwound(@, sshify.stack),
                    !.attempt = Closed(@, sshify.stack),
                    !.stack = <<>>,
                    !.phase = "exited",
                    !.raised = exception]
  /\ UNCHANGED <<dvars, clients, args, svars, reboot, enum, blob>>

\* A context that was entered after the stack was unwound is left by nobody.
\* Once no attempt refers to the stack any more the stack is garbage, and
\* the interpreter may finalize the ssh_connect generator it holds, which
\* runs its finally clause and releases its lock.
SshifyFinalize(r) ==
  /\ sshify.phase = "exited"
  /\ sshify.attempt[r] = "entered"
  /\ \A q \in sshify.remotes : sshify.attempt[q] # "connect"
  /\ sshify' = [sshify EXCEPT
                  !.remote[r] = LockRelease(SshFinally(@)),
                  !.attempt[r] = "closed",
                  !.stack = SelectSeq(@, LAMBDA q : q # r)]
  /\ UNCHANGED <<dvars, clients, args, svars, reboot, enum, blob>>

SshifyNext ==
  \/ SshifyEnter
  \/ \E r \in Remotes : SshifyConnect(r)
  \/ SshifyLeave
  \/ \E r \in Remotes : SshifyFinalize(r)

SshifyInit == Init /\ hubs = <<>>

SshifySpec == SshifyInit /\ [][SshifyNext]_vars

\* ------------------------------------------------- what the claims speak of
\* The groups of hub h's slot mapping, each named by its slot's place in the
\* mapping and its own place in the slot.
GroupIds(h) ==
  UNION {{<<k, j>> : j \in 1..Len(hub[h].chains[k].groups)} : k \in 1..Len(hub[h].chains)}

GroupAt(h, id) == hub[h].chains[id[1]].groups[id[2]]

SlotOf(h, id) == hub[h].chains[id[1]].slot

GroupsHolding(h, i) == {id \in GroupIds(h) : i \in Range(GroupAt(h, id).nodes)}

\* The hubs whose fingerprints hold the fingerprint of iris i.
Matching(i) == {h \in Range(hubs) : iris[i].last_mac \in Range(hub[h].macmatches)}

\* _map_irises of the k-th hub has returned.
Reconciled(k) ==
  \/ pc \in {"map_to_hub", "collect", "done", "discovered", "filtered"}
  \/ pc \in {"map_irises", "update_irises"} /\ cur > k
  \/ pc = "raised" /\ (err.at = "_map_to_hub" \/ cur > k)

\* _map_to_hub of iris i has returned.
Mapped(i) ==
  \/ pc \in {"collect", "done", "discovered", "filtered"}
  \/ pc = "map_to_hub" /\ cur > i
  \/ pc = "raised" /\ err.at = "_map_to_hub" /\ cur > i

\* The nodes hub h claimed that report chain identifier c, in claim order.
Group(h, c) == SelectSeq(hub[h].irises, LAMBDA n : iris[n].chain_index = c)

\* C1 (as the specification states it): once the constructor has returned,
\* every iris is in the claimed set of at most one hub, and every node a hub
\* claimed is in exactly one group of that hub's slot mapping.
C1_ExclusiveMembership ==
  pc = "done" =>
    /\ \A i \in Irises :
         Cardinality({h \in Range(hubs) : i \in Range(hub[h].irises)}) <= 1
    /\ \A h \in Range(hubs) : \A i \in Range(hub[h].irises) :
         Cardinality(GroupsHolding(h, i)) = 1

\* C2: a node whose fingerprint two enumerated hubs hold never gets past its
\* _map_to_hub, so the constructor never returns with it; and the exception
\* that _map_to_hub raises is an AssertionError naming two distinct hubs that
\* both hold the fingerprint of the node being mapped.
C2_DoubleClaimAborts ==
  /\ \A i \in Irises : Cardinality(Matching(i)) >= 2 => ~Mapped(i)
  /\ (pc = "raised" /\ err.at = "_map_to_hub") =>
       /\ err.type = "AssertionError"
       /\ err.a # err.b
       /\ {err.a, err.b} \subseteq Matching(cur)

C2_Witness ==
  /\ pc = "raised"
  /\ err.at = "_map_to_hub"
  /\ Cardinality(Matching(cur)) >= 2

\* The member list of the head of a validated chain.
HeadList(g) == iris[g.head].json.rrh.chain

\* C3 (as the specification states it): a validated chain has config_correct
\* exactly when its observed serials, sorted by position, are the head's
\* member list.
C3_ConfigCorrectIffEqual ==
  \A h \in Range(hubs) : \A id \in GroupIds(h) :
    LET g == GroupAt(h, id)
    IN g.kind = "RRH" => (g.config_correct <=> g.nodes = HeadList(g))

\* C3 (amended): the nodes of a validated chain are sorted by position, and
\* config_correct holds exactly when the observed serials agree with the
\* head's member list at every index that both sequences have.
C3_ConfigCorrectIffAgree ==
  \A h \in Range(hubs) : \A id \in GroupIds(h) :
    LET g == GroupAt(h, id)
    IN g.kind = "RRH" =>
         /\ \A k \in 1..(Len(g.nodes) - 1) :
              iris[g.nodes[k]].rrh_index <= iris[g.nodes[k + 1]].rrh_index
         /\ g.config_correct <=>
              \A k \in 1..Len(g.nodes) :
                k <= Len(HeadList(g)) => g.nodes[k] = HeadList(g)[k]

\* A validated chain of two or more nodes whose observed serials differ from
\* the member list at an index both have.
C3_Witness ==
  /\ pc = "done"
  /\ \E h \in Range(hubs) : \E id \in GroupIds(h) :
       LET g == GroupAt(h, id)
       IN g.kind = "RRH" /\ ~g.config_correct /\ Len(g.nodes) >= 2

\* The positions that the nodes of a sequence report.
Positions(nodes) == {iris[nodes[k]].rrh_index : k \in 1..Len(nodes)}

\* The chain identifiers of the daisy chains: all but the reference slot.
DaisyChains == (0..(LAST_POSSIBLE_CHAIN - 1)) \ REFERENCE_NODE_CHAIN

\* The nodes the k-th hub claimed for chain c, when none of them is a head.
Headless(k, c) ==
  /\ Group(hubs[k], c) # <<>>
  /\ get_heads(iris, Group(hubs[k], c)) = <<>>

OffByOne(k) ==
  LET claimed == hub[hubs[k]].irises
      heads == get_heads(iris, claimed)
  IN /\ claimed # <<>>
     /\ \A j \in 1..Len(claimed) : iris[claimed[j]].chain_index = 0
     /\ Len(heads) = 1
     /\ iris[heads[1]].json.rrh.has_chain
     /\ iris[heads[1]].rrh_index = 0 - 1
     /\ LET list == iris[heads[1]].json.rrh.chain
        IN /\ Range(list) = Range(claimed)
           /\ \A j \in 1..Len(list) : iris[list[j]].rrh_index = j - 2

\* C5: when every node of a hub reports chain 0 and its position less one,
\* the hub's reconciliation raises nothing, and once it is done the hub's
\* error flag is set and its slot mapping is slot 0 alone, holding one
\* validated chain with its error flag set, headed by the head and made of
\* the nodes of the head's member list, in the order of the list.
C5_OffByOneRegrouped ==
  \A k \in 1..Len(hubs) :
    OffByOne(k) =>
      /\ ~(pc = "raised" /\ cur = k /\ err.at # "_map_to_hub")
      /\ Reconciled(k) =>
           LET h == hubs[k]
               head == get_heads(iris, hub[h].irises)[1]
           IN /\ hub[h].error
              /\ Len(hub[h].chains) = 1
              /\ hub[h].chains[1].slot = 0
              /\ Len(hub[h].chains[1].groups) = 1
              /\ LET g == hub[h].chains[1].groups[1]
                 IN /\ g.kind = "RRH"
                    /\ g.error
                    /\ g.head = head
                    /\ g.nodes = iris[head].json.rrh.chain

\* A returned constructor with a hub of two or more nodes, all off by one.
C5_Witness ==
  /\ pc = "done"
  /\ \E k \in 1..Len(hubs) : OffByOne(k) /\ Len(hub[hubs[k]].irises) >= 2

\* No hub holds the fingerprint of iris i and none claimed it.
Unmatched(i) ==
  /\ Matching(i) = {}
  /\ \A h \in Range(hubs) : i \notin Range(hub[h].irises)

\* C6: a hub claims exactly the nodes whose fingerprint it holds when it
\* looks, and once the constructor has returned every iris that no hub
\* matches or claimed is in the standalone collection, is yielded by the
\* iteration over the Discover object, and is in no group of any hub.
C6_UnmatchedStandalone ==
  /\ (pc = "update_irises" /\ wave = {<<"iris", i>> : i \in Range(hub[hubs[cur]].irises)}) =>
       Range(hub[hubs[cur]].irises) = {i \in Irises : hubs[cur] \in Matching(i)}
  /\ pc = "done" =>
       \A i \in Irises :
         Unmatched(i) =>
           /\ i \in Range(top.standalone)
           /\ Item("iris", i) \in Range(DiscoverIter(iris, hub, hubs, top.standalone, clients.cpes, clients.vgers))
           /\ \A h \in Range(hubs) : GroupsHolding(h, i) = {}

\* A returned constructor with a node behind the port of a hub that was not
\* enumerated, in the standalone collection.
C6_Witness ==
  /\ pc = "done"
  /\ \E i \in Irises : \E h \in Hubs \ Range(hubs) :
       /\ iris[i].last_mac = MacMatch(PortMac(h))
       /\ Unmatched(i)
       /\ i \in Range(top.standalone)

\* C7 (as the specification states it): a node whose fetch failed is in no
\* hub's claimed set and in no group of a hub, and the None fields it is left
\* with never end the constructor in a TypeError.
C7_FailedFetchExcluded ==
  /\ \A i \in Irises : iris[i].afetch = "None" =>
       \A h \in Range(hubs) :
         i \notin Range(hub[h].irises) /\ GroupsHolding(h, i) = {}
  /\ ~(pc = "raised" /\ err.type = "TypeError")

\* C8 (as the specification states it): the only exception that leaves the
\* constructor is the AssertionError of _map_to_hub.
C8_OnlyDoubleClaimEscapes ==
  pc = "raised" => err.at = "_map_to_hub"

\* C9 (as the specification states it): when the nodes a reconciled hub
\* claimed for a daisy chain hold zero or several heads, each head among them
\* at a position other than 0 whose member list names claimed nodes has a
\* degraded group with its error flag set in a slot from LAST_POSSIBLE_CHAIN
\* on, holding those nodes, and the hub's error flag is set.
C9_UnpairedSlots ==
  \A k \in 1..Len(hubs) : \A c \in DaisyChains :
    LET h == hubs[k]
        heads == get_heads(iris, Group(h, c))
    IN (Reconciled(k) /\ Len(heads) # 1) =>
         \A j \in 1..Len(heads) :
           LET named == Range(ConfigChain(get_config_from_head(iris, heads[j])))
                          \cap Range(hub[h].irises)
           IN (iris[heads[j]].rrh_index # 0 /\ named # {}) =>
                /\ hub[h].error
                /\ \E id \in GroupIds(h) :
                     /\ SlotOf(h, id) >= LAST_POSSIBLE_CHAIN
                     /\ GroupAt(h, id).kind = "Chain"
                     /\ GroupAt(h, id).error
                     /\ Range(GroupAt(h, id).nodes) = named

\* Irises i and j are nodes of one group of some hub.
SameChainGroup(i, j) ==
  \E h \in Range(hubs) : \E id \in GroupIds(h) : {i, j} \subseteq Range(GroupAt(h, id).nodes)

\* Hub h holds iris i in a group, or is the hub _map_to_hub gave it.
Owns(h, i) == GroupsHolding(h, i) # {} \/ iris[i].hub = h

\* C10: in the updater's device list, sorted by POWER_DEPENDENCY from any
\* set of the items the Discover object yields and after its filters, a node
\* stands before every node of its chain group that reports a smaller
\* position, and before the hub that owns it.
C10_DeeperFirst ==
  pc \in {"discovered", "filtered"} =>
    \A a \in 1..Len(discovered) : \A b \in 1..Len(discovered) :
      LET x == discovered[a]
          y == discovered[b]
      IN x.kind = "iris" =>
           /\ (/\ y.kind = "iris"
               /\ SameChainGroup(x.serial, y.serial)
               /\ iris[x.serial].rrh_index > iris[y.serial].rrh_index) => a < b
           /\ (y.kind = "hub" /\ Owns(y.serial, x.serial)) => a < b

\* A filtered device list with two nodes of one chain group, the deeper one
\* first, and then their hub.
C10_Witness ==
  /\ pc = "filtered"
  /\ \E a \in 1..Len(discovered) : \E b \in 1..Len(discovered) : \E c \in 1..Len(discovered) :
       /\ a < b /\ b < c
       /\ discovered[a].kind = "iris" /\ discovered[b].kind = "iris"
       /\ SameChainGroup(discovered[a].serial, discovered[b].serial)
       /\ iris[discovered[a].serial].rrh_index > iris[discovered[b].serial].rrh_index
       /\ discovered[c].kind = "hub"
       /\ Owns(discovered[c].serial, discovered[a].serial)

\* The tasks inside the lock of the device.
Holders == {t \in Tasks : task[t] \in {"connect", "body"}}

\* C11: at any time at most one task is inside ssh_connect past the lock,
\* the device's connection is that of the task running its body, with no
\* task inside the lock is free, ssh_connection is None and ssh_session is
\* the no-connection one (whether the holder left normally, by an exception
\* or by a failed connect), and a task that waits for the lock gets it.
C11_OneSessionAtATime ==
  /\ [](/\ Cardinality(Holders) <= 1
        /\ ssh.ssh_connection # None => task[ssh.ssh_connection] = "body"
        /\ Holders = {} =>
             /\ ~ssh.locked
             /\ ssh.ssh_connection = None
             /\ ssh.ssh_session = "_ssh_session_no_connection")
  /\ \A t \in Tasks : (task[t] = "wait") ~> (task[t] = "connect")

\* A task runs its body on its connection after another left by an
\* exception, while a third waits for the lock.
C11_Witness ==
  \E t \in Tasks : \E u \in Tasks :
    /\ task[t] = "raised"
    /\ task[u] = "body"
    /\ ssh.ssh_connection = u
    /\ ssh.waiters # <<>>

\* The hub being rebooted, as its own walk yields it.
RebootedHub == Walked("hub", reboot.hub, None)

\* C12: when a recursive hub reboot (walking the hub's devices, no force)
\* has ended and the reboot of one child failed, a reboot was nevertheless issued to every other child of the hub
\* and to the hub itself.
C12_ChildFailureSpared ==
  (/\ pc \in {"rebooted", "reboot_raised"}
   /\ reboot.recursive
   /\ ~reboot.force
   /\ reboot.failed # <<>>)
  => /\ \A device \in Range(RebootLoop(hub, reboot.hub, TRUE, FALSE)) :
          device \in Range(reboot.issued) \cup Range(reboot.failed)
     /\ RebootedHub \in Range(reboot.issued)

\* C13: without force, the reboot of the hub is the last one issued and every
\* other device of the hub's walk has had its reboot issued before it; with
\* recursive=True every chain group of the slot mapping has had it by then,
\* a validated chain as itself and a degraded group as each of its nodes.
C13_HubLast ==
  (reboot.hub # None /\ ~reboot.force) =>
    LET walk == HubWalk(hub, reboot.hub, IF reboot.recursive THEN 1 ELSE 0)
        chains == hub[reboot.hub].chains
    IN /\ \A k \in 1..Len(reboot.issued) :
            reboot.issued[k] = RebootedHub =>
              /\ k = Len(reboot.issued)
              /\ \A device \in Range(walk) \ {RebootedHub} :
                   \E j \in 1..(k - 1) : reboot.issued[j] = device
       /\ (reboot.recursive /\ RebootedHub \in Range(reboot.issued)) =>
            \A s \in 1..Len(chains) : \A g \in 1..Len(chains[s].groups) :
              LET group == chains[s].groups[g]
              IN IF group.kind = "RRH"
                 THEN Walked("rrh", group.serial, group.chain) \in Range(reboot.issued)
                 ELSE \A n \in Range(group.nodes) :
                        Walked("iris", n, None) \in Range(reboot.issued)

\* A recursive reboot that went through a validated chain and a node of a
\* degraded group and then rebooted the hub.
C13_Witness ==
  /\ pc = "rebooted"
  /\ reboot.recursive
  /\ ~reboot.force
  /\ \E k \in 1..Len(reboot.issued) : reboot.issued[k].kind = "rrh"
  /\ \E k \in 1..Len(reboot.issued) : reboot.issued[k].kind = "iris"
  /\ reboot.issued[Len(reboot.issued)] = RebootedHub

\* The fetches of the first wave: all irises, hubs, CPEs and Vgers.
FirstWave ==
  {<<"iris", i>> : i \in Irises} \cup {<<"hub", hubs[k]>> : k \in 1..Len(hubs)}
  \cup {<<"cpe", c>> : c \in Range(clients.cpes)}
  \cup {<<"vger", v>> : v \in Range(clients.vgers)}

\* C14: a hub claims its nodes only when every fetch of the first wave has
\* finished; a re-fetch is of a node the hub of the turn has claimed; and
\* the step that reconciles a hub's chains (it changes the hub's slot
\* mapping, or leaves the re-fetch by an exception) is taken only for the
\* hub of the turn, with the whole first wave and the whole re-fetch wave
\* of that hub finished, and before any later hub has claimed anything.
C14_WavesJoined ==
  [][/\ (pc = "map_irises" /\ pc' = "update_irises") =>
          /\ fetched = FirstWave
          /\ hub[hubs[cur]].chains = <<>>
     /\ (pc' = "update_irises" /\ wave' # wave /\ pc = pc') =>
          /\ fetched = FirstWave
          /\ \A f \in wave \ wave' : f[1] = "iris" /\ f[2] \in Range(hub[hubs[cur]].irises)
          /\ hub[hubs[cur]].chains = <<>>
     /\ ((\E h \in Hubs : hub'[h].chains # hub[h].chains)
         \/ (pc = "update_irises" /\ pc' # pc)) =>
          /\ fetched = FirstWave
          /\ pc = "update_irises"
          /\ wave = {}
          /\ \A h \in Hubs : h # hubs[cur] => hub'[h].chains = hub[h].chains
          /\ \A k \in (cur + 1)..Len(hubs) :
               hub[hubs[k]].irises = <<>> /\ hub[hubs[k]].chains = <<>>
    ]_vars

\* Two hubs were reconciled in turn, each after re-fetching nodes it claimed.
C14_Witness ==
  /\ pc = "map_to_hub"
  /\ Len(hubs) = 2
  /\ \A k \in 1..2 : hub[hubs[k]].irises # <<>> /\ hub[hubs[k]].chains # <<>>

\* The position a node reports.
PositionOf(n) == iris[n].rrh_index

\* The nodes of a group in ascending position order.
ByPosition(nodes) ==
  SortedByKeys(nodes, [k \in 1..Len(nodes) |-> <<PositionOf(nodes[k]), 0>>])

\* What the claim has a group contribute: a validated chain and then its
\* members, a degraded group its members, in ascending position order.
RECURSIVE GroupsInOrder(_)
GroupsInOrder(groups) ==
  IF groups = <<>> THEN <<>>
  ELSE (IF Head(groups).kind = "RRH"
        THEN <<Item("rrh", Head(groups).serial)>> \o IrisItems(ByPosition(Head(groups).nodes))
        ELSE IrisItems(ByPosition(Head(groups).nodes)))
       \o GroupsInOrder(Tail(groups))

\* The slots of a hub in ascending slot order.
RECURSIVE SlotsInOrder(_)
SlotsInOrder(chains) ==
  IF chains = <<>> THEN <<>>
  ELSE LET sorted == SortedByKeys(chains, [k \in 1..Len(chains) |-> <<chains[k].slot, 0>>])
       IN GroupsInOrder(Head(sorted).groups) \o SlotsInOrder(Tail(sorted))

RECURSIVE HubsInOrder(_)
HubsInOrder(hubseq) ==
  IF hubseq = <<>> THEN <<>>
  ELSE <<Item("hub", Head(hubseq))>> \o SlotsInOrder(hub[Head(hubseq)].chains)
       \o HubsInOrder(Tail(hubseq))

\* C15: the iteration of a Discover object is, for each hub in turn, the hub,
\* then its groups by ascending slot, a validated chain followed by its
\* members and a degraded group as its members, each in ascending position
\* order; then the standalone irises, the CPEs and the Vgers.
C15_IterationOrder ==
  pc = "iterated" =>
    discovered = HubsInOrder(hubs) \o IrisItems(top.standalone)
                 \o [k \in 1..Len(clients.cpes) |-> Item("cpe", clients.cpes[k])]
                 \o [k \in 1..Len(clients.vgers) |-> Item("vger", clients.vgers[k])]

\* The groups of hub h, over all its slots.
GroupsOf(h) ==
  {hub[h].chains[s].groups[g] : <<s, g>> \in
     {p \in (1..Len(hub[h].chains)) \X (1..NumNodes) :
        p[2] <= Len(hub[h].chains[p[1]].groups)}}

\* A group as an item of a walk: a validated chain, or a degraded group
\* (which no walk of the program yields), named by its first node.
WalkedGroup(g) ==
  IF g.kind = "RRH" THEN Walked("rrh", g.serial, g.chain)
  ELSE Walked("chain", Head(g.nodes), None)

\* C16: on every item of a finished Discover object, walk(0) yields the item
\* alone, walk(1) the item and its immediate children (a hub: its groups and
\* no member node; a group: its nodes), walk(None) the item and all of its
\* descendants, and nothing else.
C16_WalkDepthBounded ==
  pc = "done" =>
    /\ \A i \in DOMAIN iris : \A depth \in {0, 1, None} :
         Range(RemoteWalk(i, depth)) = {Walked("iris", i, None)}
    /\ \A k \in 1..Len(hubs) :
         LET h == hubs[k]
             me == Walked("hub", h, None)
             nodes(g) == {Walked("iris", n, None) : n \in Range(g.nodes)}
         IN /\ Range(HubWalk(hub, h, 0)) = {me}
            /\ Range(HubWalk(hub, h, 1)) = {me} \cup {WalkedGroup(g) : g \in GroupsOf(h)}
            /\ Range(HubWalk(hub, h, None)) =
                 {me} \cup {WalkedGroup(g) : g \in GroupsOf(h)}
                      \cup UNION {nodes(g) : g \in GroupsOf(h)}
            /\ \A g \in GroupsOf(h) :
                 LET walk(depth) == IF g.kind = "RRH" THEN RRHWalk(g, depth)
                                    ELSE ChainWalk(g, depth)
                 IN /\ Range(walk(0)) = {WalkedGroup(g)}
                    /\ Range(walk(1)) = {WalkedGroup(g)} \cup nodes(g)
                    /\ Range(walk(None)) = {WalkedGroup(g)} \cup nodes(g)

\* The same on the items whose walk is depth-bounded: nodes, validated
\* chains, and hubs that hold no degraded group.
WalkOfValidated ==
  pc = "done" =>
    /\ \A i \in DOMAIN iris : \A depth \in {0, 1, None} :
         Range(RemoteWalk(i, depth)) = {Walked("iris", i, None)}
    /\ \A k \in 1..Len(hubs) :
         LET h == hubs[k]
             me == Walked("hub", h, None)
             nodes(g) == {Walked("iris", n, None) : n \in Range(g.nodes)}
         IN /\ Range(HubWalk(hub, h, 0)) = {me}
            /\ (\A g \in GroupsOf(h) : g.kind = "RRH") =>
                 /\ Range(HubWalk(hub, h, 1)) = {me} \cup {WalkedGroup(g) : g \in GroupsOf(h)}
                 /\ Range(HubWalk(hub, h, None)) =
                      {me} \cup {WalkedGroup(g) : g \in GroupsOf(h)}
                           \cup UNION {nodes(g) : g \in GroupsOf(h)}
            /\ \A g \in GroupsOf(h) : g.kind = "RRH" =>
                 /\ Range(RRHWalk(g, 0)) = {WalkedGroup(g)}
                 /\ Range(RRHWalk(g, 1)) = {WalkedGroup(g)} \cup nodes(g)
                 /\ Range(RRHWalk(g, None)) = {WalkedGroup(g)} \cup nodes(g)

\* The serials of a list of descriptors.
SerialsOf(list) == {list[k].serial : k \in 1..Len(list)} \ {NoKey}

\* The first descriptor of a list that carries a serial.
FirstWith(list, serial) ==
  list[CHOOSE k \in 1..Len(list) :
         list[k].serial = serial /\ \A j \in 1..(k - 1) : list[j].serial # serial]

\* C17: no kept descriptor lacks a serial and no serial is kept twice; a pass
\* leaves every descriptor kept before it as it was and where it was, and
\* adds, for each serial that is new, the first descriptor of the pass that
\* carries it and nothing else.
C17_FirstSeenKept ==
  /\ [](\A k \in 1..Len(enum.soapy_enumerations) :
          /\ enum.soapy_enumerations[k].serial # NoKey
          /\ \A j \in 1..(k - 1) :
               enum.soapy_enumerations[j].serial # enum.soapy_enumerations[k].serial)
  /\ [][enum'.passes # enum.passes =>
          LET old == enum.soapy_enumerations
              new == enum'.soapy_enumerations
              found == enum'.found
          IN /\ Len(new) >= Len(old)
             /\ SubSeq(new, 1, Len(old)) = old
             /\ SerialsOf(new) = SerialsOf(old) \cup SerialsOf(found)
             /\ \A k \in (Len(old) + 1)..Len(new) :
                  new[k] = FirstWith(found, new[k].serial)]_vars

\* The second pass returned a descriptor without a serial and one that
\* differs from the kept descriptor of the same serial.
C17_Witness ==
  /\ enum.passes = 2
  /\ \E k \in 1..Len(enum.found) : enum.found[k].serial = NoKey
  /\ \E k \in 1..Len(enum.found) : \E j \in 1..Len(enum.soapy_enumerations) :
       /\ enum.found[k].serial = enum.soapy_enumerations[j].serial
       /\ enum.found[k] # enum.soapy_enumerations[j]

\* C18: after classification no serial is in two of the iris, CPE, Vger and
\* hub collections.
C18_KindsDisjoint ==
  enum.classified =>
    LET kinds == <<enum.irises, enum.cpes, enum.vgers, enum.hubs>>
    IN \A a \in 1..4 : \A b \in 1..4 :
         a # b => SerialsOf(kinds[a]) \cap SerialsOf(kinds[b]) = {}

\* The value of an octet.
OctetValue(o) == o[1] * 16 + o[2]

\* C19: after a fetch the fingerprint of each address o1:..:o6 of the network
\* map is o6 * 65536 + o5 * 256 + o4 (the bytes o6, o5, o4, most significant
\* first); the decode gives the same for every other o1..o3; and a second
\* fetch of the same document gives the same set of fingerprints.
C19_FingerprintBytes ==
  /\ blob.fetches >= 1 =>
       /\ Len(blob.hub.macmatches) = Len(blob.network)
       /\ \A k \in 1..Len(blob.network) :
            LET o == blob.network[k]
            IN /\ blob.hub.macmatches[k] =
                    OctetValue(o[6]) * 65536 + OctetValue(o[5]) * 256 + OctetValue(o[4])
               /\ \A p \in [1..3 -> Octets] :
                    MacMatch(p \o SubSeq(o, 4, 6)) = blob.hub.macmatches[k]
  /\ blob.fetches >= 2 => Range(blob.hub.macmatches) = Range(blob.before)

\* A hub fetched twice whose address has three different trailing octets
\* and a leading octet that is not zero.
C19_Witness ==
  /\ blob.fetches = 2
  /\ \E k \in 1..Len(blob.network) :
       LET o == blob.network[k]
       IN /\ o[1] # <<0, 0>>
          /\ o[4] # o[5] /\ o[5] # o[6] /\ o[4] # o[6]
          /\ blob.hub.macmatches[k] # 0

\* The objects of a finished Discover: irises, enumerated hubs and the
\* validated chains of their slot mappings.
Things ==
  {Thing("iris", i, 0, 0) : i \in DOMAIN iris}
  \cup {Thing("hub", hubs[k], 0, 0) : k \in 1..Len(hubs)}
  \cup UNION {{Thing("rrh", hubs[k], p[1], p[2]) :
                 p \in {q \in (1..Len(hub[hubs[k]].chains)) \X (1..NumNodes) :
                          /\ q[2] <= Len(hub[hubs[k]].chains[q[1]].groups)
                          /\ hub[hubs[k]].chains[q[1]].groups[q[2]].kind = "RRH"}} :
              k \in 1..Len(hubs)}

\* C20: over the objects of a finished Discover, RELATED_TO(a)(b) is true
\* exactly when a is b, or a and b are irises among the nodes of one group
\* of one hub, or one is a hub and the other an iris mapped to it or a
\* validated chain of its slot mapping.
C20_RelatedExactly ==
  pc = "done" =>
    \A a \in Things : \A b \in Things :
      RELATED_TO(iris, a, b) <=>
        \/ a = b
        \/ /\ a.kind = "iris" /\ b.kind = "iris"
           /\ \E h \in Range(hubs) : \E g \in GroupsOf(h) :
                a.id[1] \in Range(g.nodes) /\ b.id[1] \in Range(g.nodes)
        \/ \E x \in {a, b} : \E y \in {a, b} :
             /\ x.kind = "hub"
             /\ \/ y.kind = "iris" /\ iris[y.id[1]].hub = x.id[1]
                \/ y.kind = "rrh" /\ y.id[1] = x.id[1]

\* C21 (as the specification states it): once the constructor has returned,
\* the hub an iris refers to is the hub whose claimed set holds the iris, for
\* every iris and every enumerated hub.
C21_HubMappingBidirectional ==
  pc = "done" =>
    \A i \in Irises : \A h \in Range(hubs) :
      iris[i].hub = h <=> i \in Range(hub[h].irises)

\* C22 (as the specification states it): when the updater's filters run with
\* --standalone, the devices they leave for flashing are the standalone
\* irises among the discovered devices, whatever --patch-all and the serial
\* arguments are.
C22_StandaloneSelectsStandalone ==
  [][(pc = "discovered" /\ pc' = "filtered" /\ args'.standalone) =>
       Range(discovered') =
         {x \in Range(discovered) : x.kind = "iris" /\ x.serial \in Range(top.standalone)}]_vars

\* The hub's error flag is set exactly when a group of its slot mapping has
\* its error flag set.
HubErrorIffGroupError(h) ==
  hub[h].error <=> \E id \in GroupIds(h) : GroupAt(h, id).error

\* The group of hub h named id came out of the nodes that report a chain
\* identifier other than the reference one, and those nodes hold no head or
\* several.
FromUnresolved(h, id) ==
  /\ SlotOf(h, id) \notin REFERENCE_NODE_CHAIN
  /\ Len(get_heads(iris, Group(h, SlotOf(h, id)))) # 1

\* C23 (as the specification states it): once a hub is reconciled, its error
\* flag is set exactly when some group of its slot mapping has its error flag
\* set, and every group that came out of a non-reference chain identifier
\* whose nodes hold no head or several has its error flag set.
C23_ErrorFlagsAgree ==
  \A k \in 1..Len(hubs) :
    Reconciled(k) =>
      /\ HubErrorIffGroupError(hubs[k])
      /\ \A id \in GroupIds(hubs[k]) :
           FromUnresolved(hubs[k], id) => GroupAt(hubs[k], id).error

\* Iris i reports a position below 0.
NegativePosition(i) == iris[i].rrh_index # None /\ iris[i].rrh_index < 0

\* C24 (as the specification states it): once a hub is reconciled, a claimed
\* node that reports a negative position has the hub's error flag set and
\* the error flag of every group that holds the node, a validated chain
\* included.
C24_NegativePositionFlagged ==
  \A k \in 1..Len(hubs) :
    Reconciled(k) =>
      \A i \in Range(hub[hubs[k]].irises) :
        NegativePosition(i) =>
          /\ hub[hubs[k]].error
          /\ \A id \in GroupsHolding(hubs[k], i) : GroupAt(hubs[k], id).error

\* The groups of hub h that sit in a slot of the reference chain.
ReferenceGroups(h) == {id \in GroupIds(h) : SlotOf(h, id) \in REFERENCE_NODE_CHAIN}

\* C25 (as the specification states it): once a hub is reconciled, the nodes
\* it claimed that report the reference chain identifier are one group in the
\* slot of that identifier, a Chain and no validated chain, that holds every
\* one of them and nothing else and has its error flag clear; and the hub's
\* error flag is set only if a group outside the reference slot has its own
\* set.
C25_ReferenceVerbatim ==
  \A k \in 1..Len(hubs) : \A c \in REFERENCE_NODE_CHAIN :
    (Reconciled(k) /\ Group(hubs[k], c) # <<>>) =>
      /\ \E id \in GroupIds(hubs[k]) :
           /\ ReferenceGroups(hubs[k]) = {id}
           /\ SlotOf(hubs[k], id) = c
           /\ GroupAt(hubs[k], id).kind = "Chain"
           /\ ~GroupAt(hubs[k], id).error
           /\ Range(GroupAt(hubs[k], id).nodes) = Range(Group(hubs[k], c))
      /\ hub[hubs[k]].error =>
           \E id \in GroupIds(hubs[k]) \ ReferenceGroups(hubs[k]) : GroupAt(hubs[k], id).error

\* What reconciliation emits for chain identifier c of hub h: the lists that
\* filter_chain_for_bad_indexes returns for the claimed nodes that report c,
\* the empty ones left out, in the order create_chain is called with them.
Emitted(h, c) ==
  SelectSeq(filter_chain_for_bad_indexes(iris, c, SortByIndex(iris, Group(h, c))).rrhs,
            LAMBDA nodes : nodes # <<>>)

\* The groups that the slot c of hub h holds, in the order the slot keeps them.
SlotGroups(h, c) ==
  IF \E k \in 1..Len(hub[h].chains) : hub[h].chains[k].slot = c
  THEN hub[h].chains[CHOOSE k \in 1..Len(hub[h].chains) : hub[h].chains[k].slot = c].groups
  ELSE <<>>

\* C26: when the reconciliation of a hub emits several groups for one slot,
\* the slot holds one group for each of them, in the order of emission, each
\* made of nodes of the list it was emitted from (a validated chain of all of
\* them), and the iteration over the hub and the unbounded walk of the hub
\* yield every node of every one of these groups.
C26_SlotKeepsEveryGroup ==
  \A k \in 1..Len(hubs) : \A c \in 0..(LAST_POSSIBLE_CHAIN - 1) :
    (Reconciled(k) /\ Len(Emitted(hubs[k], c)) >= 2) =>
      LET h == hubs[k]
          groups == SlotGroups(h, c)
      IN /\ Len(groups) = Len(Emitted(h, c))
         /\ \A j \in 1..Len(groups) :
              /\ groups[j].nodes # <<>>
              /\ Range(groups[j].nodes) \subseteq Range(Emitted(h, c)[j])
              /\ groups[j].kind = "RRH" => Range(groups[j].nodes) = Range(Emitted(h, c)[j])
              /\ \A n \in Range(groups[j].nodes) :
                   /\ Item("iris", n) \in Range(HubIter(iris, hub, h))
                   /\ Walked("iris", n, None) \in Range(HubWalk(hub, h, None))

\* A returned constructor with a hub's slot that holds a validated chain and,
\* after it, the leftover nodes as a degraded group.
C26_Witness ==
  /\ pc = "done"
  /\ \E h \in Range(hubs) : \E c \in 0..(LAST_POSSIBLE_CHAIN - 1) :
       /\ Len(SlotGroups(h, c)) = 2
       /\ SlotGroups(h, c)[1].kind = "RRH"
       /\ SlotGroups(h, c)[2].kind = "Chain"

\* C27 (as the specification states it): once the constructor has returned,
\* every validated chain of every hub's slot mapping is in the collection of
\* validated chains exactly once, also when its slot holds another group.
C27_RrhsComplete ==
  pc = "done" =>
    \A h \in Range(hubs) : \A id \in GroupIds(h) :
      GroupAt(h, id).kind = "RRH" =>
        Cardinality({k \in 1..Len(top.rrhs) :
                       top.rrhs[k] = [h |-> h, rrh |-> GroupAt(h, id)]}) = 1

\* C28 (as the specification states it): once sshify has exited, by the end
\* of its body or by an exception, the lock of every device it was given is
\* free and no device has a connection.
C28_SshifyLeavesNothing ==
  sshify.phase = "exited" =>
    \A r \in sshify.remotes :
      ~sshify.remote[r].locked /\ sshify.remote[r].ssh_connection = None

\* The child reboots a hub reboot has invoked so far never queued for the
\* hub's lock, and once the hub reboot has ended the hub's lock is free and
\* its connection closed.
HubLockNeverAwaited ==
  /\ pc # "reboot_waits"
  /\ reboot.remote.waiters = <<>>
  /\ \A k \in 1..Len(reboot.via) : reboot.via[k] # "sshify_hub"
  /\ pc \in {"rebooted", "reboot_raised"}
       => ~reboot.remote.locked /\ reboot.remote.ssh_connection = None

\* C29: a hub reboot does not deadlock: every child reboot it invokes while
\* it holds the hub's lock goes over the hub's live connection or through
\* the lock of the child's own device, none waits for the hub's lock, each
\* is an operation that can be awaited (the reference slot of the force path
\* may be absent), and when the hub reboot has ended, by completion, failure
\* or absence, the hub's lock is free.
C29_HubRebootNoDeadlock ==
  /\ HubLockNeverAwaited
  /\ \A k \in 1..Len(reboot.via) :
       reboot.via[k] \in {"hub_connection", "sshify_self", "KeyError"}

\* Every group of every hub's slot mapping is made of nodes that report the
\* chain identifier of the slot it was installed in.
GroupsShareChain ==
  pc = "done" =>
    \A h \in Range(hubs) : \A k \in 1..Len(hub[h].chains) :
      \A g \in 1..Len(hub[h].chains[k].groups) :
        \A n \in Range(hub[h].chains[k].groups[g].nodes) :
          iris[n].chain_index = hub[h].chains[k].slot

\* C30: the constructor of a hub never ends with the assertion of
\* RRH.__init__ on the chain its members agree on: every group that
\* _map_irises and filter_chain_for_bad_indexes hand to create_chain is made
\* of nodes that report one common chain identifier.
C30_ChainAgreementNeverFails ==
  /\ ~(pc = "raised" /\ err.type = "AssertionError" /\ err.at = "create_chain")
  /\ GroupsShareChain

\* A hub whose irises report two chain identifiers was reconciled and holds
\* a validated chain.
C30_Witness ==
  /\ pc = "done"
  /\ \E h \in Range(hubs) :
       /\ \E n \in Range(hub[h].irises) : \E m \in Range(hub[h].irises) :
            iris[n].chain_index # iris[m].chain_index
       /\ \E k \in 1..Len(hub[h].chains) :
            \E g \in 1..Len(hub[h].chains[k].groups) :
              hub[h].chains[k].groups[g].kind = "RRH"

====
